---- MODULE Spec2Model ----
(***************************************************************************)
(* Model of pkg/crmanager/resourceConfig.go: the resource-configuration    *)
(* synthesis engine of the controller (profile list of a Virtual, the      *)
(* dependency tracker, the policy rule list with MergeRules/UnmergeRule,   *)
(* the previous-generation snapshot of the store, the configs built from   *)
(* VirtualServers and their TLS resolution, concurrent passes over the     *)
(* store and SSLContext, data-group flattening and the naming functions).  *)
(*                                                                         *)
(* Go pointers are modelled by identity: a *Rule is an index into `heap`,  *)
(* a *action is an index into the table ActionObj, so that two references  *)
(* to one object see each other's writes and pointer comparison is index   *)
(* comparison.  Go strings are TLA+ strings; the byte-wise order and the   *)
(* substring tests of package strings are tabulated over the finite set of *)
(* strings the model uses.                                                 *)
(***************************************************************************)
EXTENDS Integers, Sequences, FiniteSets, TLC

VARIABLES
    profiles,        \* Virtual.Profiles of the virtual under test
    profArg,         \* argument of the last AddOrUpdateProfile call
    profRet,         \* its return value
    objDeps,         \* Resources.objDeps
    depKey,          \* newKey of the last UpdateDependencies call
    depNew,          \* newDeps of the last UpdateDependencies call
    added,           \* first return value of the last call
    removed,         \* second return value of the last call
    rsMap,           \* Resources.rsMap: name -> ResourceConfig
    oldRsMap,        \* Resources.oldRsMap, the previous-generation snapshot
    heap,            \* the Rule objects: *Rule -> Rule
    mergedRulesMap,  \* config name -> rule name -> mergedRuleEntry
    panicked,        \* a nil dereference or a slice bound ended the process
    lastOp,          \* the last operation on a config, its argument and result
    preMerge,        \* the rules of the policy as the last MergeRules found them
    SSLContext,      \* CRManager.SSLContext: secret name -> secret
    irulesMap,       \* CRManager.irulesMap: NameRef -> IRule
    intDgMap,        \* CRManager.intDgMap: NameRef -> DataGroupNamespaceMap
    svcFwdRulesMap,  \* the ServiceFwdRuleMap handed to handleVirtualServerTLS
    customProfiles,  \* CRManager.customProfiles: secretKey -> CustomProfile
    tlsIndexer,      \* the TLSProfile objects of the cluster, by namespace/name
    secrets,         \* the Secret objects of the cluster, by namespace and name
    pc,              \* where each concurrent reconciliation pass stands
    mutex,           \* the sync.Mutex embedded in Resources: its holder, or 0
    local            \* the local variables of each concurrent pass

vars == <<profiles, profArg, profRet, objDeps, depKey, depNew, added, removed,
          rsMap, oldRsMap, heap, mergedRulesMap, panicked, lastOp, preMerge,
          SSLContext, irulesMap, intDgMap, svcFwdRulesMap, customProfiles,
          tlsIndexer, secrets, pc, mutex, local>>

ruleVars == <<rsMap, oldRsMap, heap, mergedRulesMap, panicked, lastOp, preMerge>>

\* the store and the rules, but for lastOp
storeVars == <<rsMap, oldRsMap, heap, mergedRulesMap, panicked, preMerge>>

profVars == <<profiles, profArg, profRet>>
depVars == <<objDeps, depKey, depNew, added, removed>>
tlsVars == <<SSLContext, irulesMap, intDgMap, svcFwdRulesMap, customProfiles,
            tlsIndexer, secrets>>
passVars == <<pc, mutex, local>>

\* the goroutines that run reconciliation passes side by side, and the
\* local variables of a pass that has not started
Workers == {1, 2}
NoSecret == [Namespace |-> "", Name |-> "", Data |-> ""]
NoLocal == [secret |-> NoSecret, gets |-> 0, ret |-> FALSE]

\* Before the first call there is no argument: the zero ProfileRef and the
\* zero ObjectDependency stand for it.
NoProfile == [Partition |-> "", Name |-> "", Context |-> "", Namespace |-> ""]
NoDep == [Kind |-> "", Namespace |-> "", Name |-> "", Service |-> ""]

(***************************************************************************)
(* Sequence helpers.                                                       *)
(***************************************************************************)
\* s with the element at position i (1-based) removed
RemoveAt(s, i) == SubSeq(s, 1, i - 1) \o SubSeq(s, i + 1, Len(s))

\* s with x inserted so that it ends at position i (1-based)
InsertAt(s, i, x) == SubSeq(s, 1, i - 1) \o <<x>> \o SubSeq(s, i, Len(s))

\* the elements of a sequence
Range(s) == {s[i] : i \in 1..Len(s)}

\* every order in which `range` may iterate a Go map with key set S
Orders(S) == {o \in [1..Cardinality(S) -> S] : \A x \in S : \E i \in 1..Cardinality(S) : o[i] = x}

(***************************************************************************)
(* Strings.  Go compares strings byte-wise: upper case sorts before lower  *)
(* case.  StrRank tabulates that order on the partition and profile names  *)
(* used below.                                                             *)
(***************************************************************************)
Partitions == {"Common", "test"}
ProfileNames == {"clientssl", "serverssl"}
Contexts == {"clientside", "serverside"}
ProfNamespaces == {"ns1", "ns2"}

StrRank(s) ==
    CASE s = "" -> 0
      [] s = "Common" -> 1
      [] s = "a" -> 2
      [] s = "b" -> 3
      [] s = "bar.com" -> 4
      [] s = "c" -> 5
      [] s = "clientssl" -> 6
      [] s = "foo.com" -> 7
      [] s = "serverssl" -> 8
      [] s = "test" -> 9

StrLess(a, b) == StrRank(a) < StrRank(b)
StrGeq(a, b) == StrRank(a) >= StrRank(b)

(***************************************************************************)
(* Virtual.AddOrUpdateProfile                                              *)
(***************************************************************************)
MaxProfiles == 3

ProfileRefs ==
    [Partition : Partitions, Name : ProfileNames, Context : Contexts,
     Namespace : ProfNamespaces]

\* ProfileRefs.Less
ProfileLess(a, b) ==
    \/ StrLess(a.Partition, b.Partition)
    \/ a.Partition = b.Partition /\ StrLess(a.Name, b.Name)

\* the closure keyFunc; i is a Go (0-based) index
keyFuncWrongOrder(P, prof, i) ==
    \/ StrLess(prof.Partition, P[i + 1].Partition)
    \/ P[i + 1].Partition = prof.Partition /\ StrLess(prof.Name, P[i + 1].Name)

keyFunc(P, prof, i) ==
    \/ StrLess(prof.Partition, P[i + 1].Partition)
    \/ P[i + 1].Partition = prof.Partition /\ StrGeq(P[i + 1].Name, prof.Name)

\* sort.Search(n, f): the binary search of package sort on [i, j)
RECURSIVE sortSearch(_, _, _, _)
sortSearch(P, prof, i, j) ==
    IF i < j
    THEN LET h == (i + j) \div 2
         IN  IF ~keyFunc(P, prof, h)
             THEN sortSearch(P, prof, h + 1, j)
             ELSE sortSearch(P, prof, i, h)
    ELSE i

\* the list and the return value of v.AddOrUpdateProfile(prof)
AddOrUpdateProfileAppends(P, prof) ==
    [Profiles |-> Append(P, prof), ret |-> TRUE]

AddOrUpdateProfile(P, prof) ==
    LET profCt == Len(P)
        i == sortSearch(P, prof, 0, profCt)
        found == /\ i < profCt
                 /\ P[i + 1].Partition = prof.Partition
                 /\ P[i + 1].Name = prof.Name
    IN  IF found
        THEN IF P[i + 1].Context = prof.Context
             THEN [Profiles |-> P, ret |-> FALSE]
             ELSE [Profiles |-> [P EXCEPT ![i + 1] = prof], ret |-> TRUE]
        ELSE [Profiles |-> InsertAt(P, i + 1, prof), ret |-> TRUE]

CallAddOrUpdateProfile ==
    \E prof \in ProfileRefs :
        LET r == AddOrUpdateProfile(profiles, prof)
        IN  /\ Len(r.Profiles) <= MaxProfiles
            /\ profiles' = r.Profiles
            /\ profRet' = r.ret
            /\ profArg' = prof
            /\ UNCHANGED <<depVars, ruleVars, tlsVars, passVars>>

(***************************************************************************)
(* Resources.UpdateDependencies                                            *)
(***************************************************************************)
RuleDep == "Rule"
VirtualServer == "VirtualServer"

VS1 == [Kind |-> VirtualServer, Namespace |-> "ns1", Name |-> "vs1", Service |-> ""]
VS2 == [Kind |-> VirtualServer, Namespace |-> "ns1", Name |-> "vs2", Service |-> ""]
R1 == [Kind |-> RuleDep, Namespace |-> "ns1", Name |-> "foo.com/a", Service |-> "svc1"]
R2 == [Kind |-> RuleDep, Namespace |-> "ns1", Name |-> "foo.com/b", Service |-> "svc2"]

\* the owners UpdateDependencies is called for, and what they may depend on
DepKeys == {VS1, VS2}
DepUniverse == {VS1, VS2, R1, R2}
\* every ObjectDependencies map: dependency -> use count ("usually 1")
ObjectDependenciesSet == UNION {[S -> {1}] : S \in SUBSET DepUniverse}

RECURSIVE buildRemovedAppendOnly(_, _, _, _)
buildRemovedAppendOnly(order, k, newDeps, acc) ==
    IF k > Len(order) THEN acc
    ELSE IF order[k] \notin DOMAIN newDeps
         THEN buildRemovedAppendOnly(order, k + 1, newDeps, Append(acc, order[k]))
         ELSE buildRemovedAppendOnly(order, k + 1, newDeps, acc)

\* lines 770-780: the removed list, oldDeps iterated in the order `order`
RECURSIVE buildRemoved(_, _, _, _)
buildRemoved(order, k, newDeps, acc) ==
    IF k > Len(order) THEN acc
    ELSE LET oldDep == order[k]
         IN  IF oldDep \notin DOMAIN newDeps
             THEN IF oldDep.Kind = RuleDep
                  THEN buildRemoved(order, k + 1, newDeps, <<oldDep>> \o acc)
                  ELSE buildRemoved(order, k + 1, newDeps, Append(acc, oldDep))
             ELSE buildRemoved(order, k + 1, newDeps, acc)

\* lines 782-791: the added list, newDeps iterated in the order `order`
RECURSIVE buildAdded(_, _, _, _)
buildAdded(order, k, oldDom, acc) ==
    IF k > Len(order) THEN acc
    ELSE IF order[k] \notin oldDom
         THEN buildAdded(order, k + 1, oldDom, Append(acc, order[k]))
         ELSE buildAdded(order, k + 1, oldDom, acc)

\* what is recorded for newKey when the call returns (line 793)
recordDepsMerged(deps, newKey, newDeps) ==
    IF newKey \in DOMAIN deps
    THEN [k \in DOMAIN deps |->
            IF k = newKey
            THEN [d \in DOMAIN deps[k] \cup DOMAIN newDeps |->
                    IF d \in DOMAIN newDeps THEN newDeps[d] ELSE deps[k][d]]
            ELSE deps[k]]
    ELSE [k \in DOMAIN deps \cup {newKey} |-> IF k = newKey THEN newDeps ELSE deps[k]]

recordDeps(deps, newKey, newDeps) ==
    [k \in DOMAIN deps \cup {newKey} |-> IF k = newKey THEN newDeps ELSE deps[k]]

\* the two lists UpdateDependencies returns, for given iteration orders
removedListNever(deps, newKey, newDeps, oldOrder) == <<>>

removedList(deps, newKey, newDeps, oldOrder) ==
    IF newKey \in DOMAIN deps
    THEN buildRemoved(oldOrder, 1, newDeps, <<>>)
    ELSE <<>>

addedList(deps, newKey, newDeps, newOrder) ==
    IF newKey \in DOMAIN deps
    THEN buildAdded(newOrder, 1, DOMAIN deps[newKey], <<>>)
    ELSE newOrder

UpdateDependenciesStep(keys, depsSet) ==
    \E newKey \in keys, newDeps \in depsSet :
        \* A dependency found in the other map is skipped wherever `range`
        \* visits it (lines 771, 783), so the iteration order of a Go map is
        \* drawn over the dependencies that are not skipped.
        LET oldDom == IF newKey \in DOMAIN objDeps THEN DOMAIN objDeps[newKey] ELSE {}
        IN  \E oldOrder \in Orders(oldDom \ DOMAIN newDeps),
               newOrder \in Orders(DOMAIN newDeps \ oldDom) :
                /\ added' = addedList(objDeps, newKey, newDeps, newOrder)
                /\ removed' = removedList(objDeps, newKey, newDeps, oldOrder)
                /\ objDeps' = recordDeps(objDeps, newKey, newDeps)
                /\ depKey' = newKey
                /\ depNew' = newDeps
UpdateDependenciesOf(keys, depsSet) ==
    /\ UpdateDependenciesStep(keys, depsSet)
    /\ UNCHANGED <<profVars, ruleVars, tlsVars, passVars>>
UpdateDependencies == UpdateDependenciesOf(DepKeys, ObjectDependenciesSet)

(***************************************************************************)
(* Rules, conditions and actions.                                          *)
(*                                                                         *)
(* A *Rule is an index into `heap` (NilRule is the nil pointer); a rule    *)
(* holds its conditions by value and its actions as indices into ActionObj *)
(* (a []*action: UnmergeRule compares action pointers).  MergeRules blanks *)
(* and restores the Name of conditions and actions around each comparison, *)
(* so both are constant objects.                                           *)
(***************************************************************************)
NilRule == 0

\* condition values: a host condition and a path-segment condition
hostCond(name) ==
    [Name |-> name, Host |-> TRUE, PathSegment |-> FALSE, Index |-> 0,
     Values |-> <<"foo.com">>]
pathCond(name, index, seg) ==
    [Name |-> name, Host |-> FALSE, PathSegment |-> TRUE, Index |-> index,
     Values |-> <<seg>>]

\* the action objects the rules below point to
NumActions == 6
ActionObj(a) ==
    CASE a = 1 -> [Name |-> "0", Kind |-> "forward", Value |-> "ns1_svc1"]
      [] a = 2 -> [Name |-> "1", Kind |-> "redirect", Value |-> "/approot"]
      [] a = 3 -> [Name |-> "0", Kind |-> "replace", Value |-> "/new"]
      [] a = 4 -> [Name |-> "0", Kind |-> "reset", Value |-> ""]
      [] a = 5 -> [Name |-> "0", Kind |-> "forward", Value |-> "ns1_svc2"]
      [] a = 6 -> [Name |-> "1", Kind |-> "forward", Value |-> "ns1_svc1"]

\* reflect.DeepEqual of two conditions, or two actions, with Name set to ""
nameBlindEqual(x, y) == [x EXCEPT !.Name = ""] = [y EXCEPT !.Name = ""]

\* the rules a caller may hand to AddRuleToPolicy: a new Rule object with
\* these fields
NumRules == 10
RuleIds == 1..NumRules
NewRule(r) ==
    CASE r = 1 -> [Name |-> "app-root-forward-rule-a", FullURI |-> "foo.com/a",
                   Ordinal |-> 0, Conditions |-> <<hostCond("0")>>,
                   Actions |-> <<1, 2>>]
      [] r = 2 -> [Name |-> "url-rewrite-rule-a", FullURI |-> "foo.com/a",
                   Ordinal |-> 1, Conditions |-> <<hostCond("1")>>,
                   Actions |-> <<3>>]
      [] r = 3 -> [Name |-> "vs-rule-a", FullURI |-> "foo.com/a",
                   Ordinal |-> 2, Conditions |-> <<hostCond("0")>>,
                   Actions |-> <<6>>]
      [] r = 4 -> [Name |-> "vs-rule-a", FullURI |-> "foo.com/a",
                   Ordinal |-> 0, Conditions |-> <<hostCond("0")>>,
                   Actions |-> <<5>>]
      [] r = 5 -> [Name |-> "vs-rule-b", FullURI |-> "foo.com/b",
                   Ordinal |-> 1,
                   Conditions |-> <<hostCond("0"), pathCond("1", 1, "b")>>,
                   Actions |-> <<5>>]
      [] r = 6 -> [Name |-> "url-rewrite-rule-b", FullURI |-> "foo.com/b",
                   Ordinal |-> 2,
                   Conditions |-> <<hostCond("0"), hostCond("1")>>,
                   Actions |-> <<3>>]
      [] r = 7 -> [Name |-> "app-root-redirect-rule-b", FullURI |-> "foo.com/b",
                   Ordinal |-> 0,
                   Conditions |-> <<pathCond("0", 1, "b"), hostCond("1")>>,
                   Actions |-> <<2>>]
      [] r = 8 -> [Name |-> "url-rewrite-rule-a-reset", FullURI |-> "foo.com/a",
                   Ordinal |-> 1, Conditions |-> <<hostCond("0")>>,
                   Actions |-> <<4>>]
      [] r = 9 -> [Name |-> "vs-rule-c", FullURI |-> "foo.com/a",
                   Ordinal |-> 1, Conditions |-> <<hostCond("1")>>,
                   Actions |-> <<5>>]
      [] r = 10 -> [Name |-> "vs-rule-a", FullURI |-> "foo.com/b",
                    Ordinal |-> 3, Conditions |-> <<hostCond("0")>>,
                    Actions |-> <<5>>]

RuleNames == {NewRule(r).Name : r \in RuleIds}

\* strings.HasSuffix(name, "-reset") on RuleNames
HasSuffixReset(name) == name \in {"url-rewrite-rule-a-reset"}

\* strings.Contains(name, "app-root") || strings.Contains(name, "url-rewrite")
\* on RuleNames
HasMarker(name) ==
    name \in {"app-root-forward-rule-a", "url-rewrite-rule-a",
              "url-rewrite-rule-b", "app-root-redirect-rule-b",
              "url-rewrite-rule-a-reset"}

(***************************************************************************)
(* Go maps keyed by strings                                                *)
(***************************************************************************)
MapPut(f, k, v) == [x \in DOMAIN f \cup {k} |-> IF x = k THEN v ELSE f[x]]
MapDelete(f, k) == [x \in DOMAIN f \ {k} |-> f[x]]

(***************************************************************************)
(* ResourceConfig, Policy                                                  *)
(***************************************************************************)
crMgrPartition == "test"
RsName == "f5_crd_virtualserver_10_1_1_1_80"
RsNames == {RsName}
PolicyName == "f5_crd_virtualserver_10_1_1_1_80_policy"

\* a zero ResourceConfig with its virtual named and placed (var cfg and
\* cfg.Virtual.Name, cfg.Virtual.Partition of createRSConfigFromVirtualServer)
NewResourceConfig(name) ==
    [Virtual |-> [Name |-> name, Partition |-> crMgrPartition, Policies |-> <<>>],
     Policies |-> <<>>]

\* createPolicy: a policy that controls "forwarding" and holds the rules
createPolicy(rules, policyName, partition) ==
    [Name |-> policyName, Partition |-> partition,
     Controls |-> <<"forwarding">>, Rules |-> rules]

\* rc.FindPolicy(controlType): the position of the policy found, 0 for nil
FindPolicy(rc, controlType) ==
    LET hits == {i \in 1..Len(rc.Policies) :
                    controlType \in Range(rc.Policies[i].Controls)}
    IN  IF hits = {} THEN 0 ELSE CHOOSE i \in hits : \A k \in hits : i <= k

\* the position of the first policy with that name (DeleteRuleFromPolicy)
FindPolicyByName(rc, policyName) ==
    LET hits == {i \in 1..Len(rc.Policies) : rc.Policies[i].Name = policyName}
    IN  IF hits = {} THEN 0 ELSE CHOOSE i \in hits : \A k \in hits : i <= k

nameRefOf(policy) == [Name |-> policy.Name, Partition |-> policy.Partition]

\* rc.SetPolicy(policy)
SetPolicy(rc, policy) ==
    LET toFind == nameRefOf(policy)
        refs == IF toFind \in Range(rc.Virtual.Policies)
                THEN rc.Virtual.Policies
                ELSE Append(rc.Virtual.Policies, toFind)
        hits == {i \in 1..Len(rc.Policies) : nameRefOf(rc.Policies[i]) = toFind}
        pols == IF hits = {}
                THEN Append(rc.Policies, policy)
                ELSE [rc.Policies EXCEPT ![CHOOSE i \in hits : \A k \in hits : i <= k] = policy]
    IN  [rc EXCEPT !.Virtual.Policies = refs, !.Policies = pols]

\* rc.RemovePolicy(policy)
RemovePolicy(rc, policy) ==
    LET toFind == nameRefOf(policy)
        rhits == {i \in 1..Len(rc.Virtual.Policies) : rc.Virtual.Policies[i] = toFind}
        refs == IF rhits = {} THEN rc.Virtual.Policies
                ELSE RemoveAt(rc.Virtual.Policies, CHOOSE i \in rhits : \A k \in rhits : i <= k)
        hits == {i \in 1..Len(rc.Policies) : nameRefOf(rc.Policies[i]) = toFind}
        pols == IF hits = {} THEN rc.Policies
                ELSE RemoveAt(rc.Policies, CHOOSE i \in hits : \A k \in hits : i <= k)
    IN  [rc EXCEPT !.Virtual.Policies = refs, !.Policies = pols]

\* the position of the first rule with that name, whatever its FullURI
RECURSIVE findRuleAnyURI(_, _, _, _, _, _)
findRuleAnyURI(rules, h, name, uri, byURI, i) ==
    IF i > Len(rules) THEN 0
    ELSE IF rules[i] = NilRule THEN -1
    ELSE IF h[rules[i]].Name = name THEN i
    ELSE findRuleAnyURI(rules, h, name, uri, byURI, i + 1)

\* A loop `for i, r := range rules { if r.Name == name ... break }`: the
\* position of the first rule with that name (and FullURI, when byURI), 0 when
\* there is none, -1 when a nil *Rule is dereferenced before one is found.
RECURSIVE findRule(_, _, _, _, _, _)
findRule(rules, h, name, uri, byURI, i) ==
    IF i > Len(rules) THEN 0
    ELSE IF rules[i] = NilRule THEN -1
    ELSE IF h[rules[i]].Name = name /\ (byURI => h[rules[i]].FullURI = uri) THEN i
    ELSE findRule(rules, h, name, uri, byURI, i + 1)

\* what an operation hands back: the config, the heap, the merge records,
\* whether it panicked, and its return value
Result(rc, h, mrm, panic, ret) ==
    [rc |-> rc, heap |-> h, mrm |-> mrm, panic |-> panic, ret |-> ret]

\* a policy that takes every rule it is handed at its end
AddRuleToPolicyAppends(rc, h, mrm, policyName, rule) ==
    LET pi == FindPolicy(rc, "forwarding")
    IN  IF pi # 0
        THEN Result(SetPolicy(rc, [rc.Policies[pi] EXCEPT !.Rules = Append(@, rule)]),
                    h, mrm, FALSE, FALSE)
        ELSE Result(SetPolicy(rc, createPolicy(<<rule>>, policyName, rc.Virtual.Partition)),
                    h, mrm, FALSE, FALSE)
\* rc.AddRuleToPolicy(policyName, rule)
AddRuleToPolicy(rc, h, mrm, policyName, rule) ==
    LET pi == FindPolicy(rc, "forwarding")
    IN  IF pi # 0
        THEN LET policy == rc.Policies[pi]
                 m == findRule(policy.Rules, h, h[rule].Name, h[rule].FullURI, TRUE, 1)
             IN  IF m = -1 THEN Result(rc, h, mrm, TRUE, FALSE)
                 ELSE IF m > 0
                 THEN Result(SetPolicy(rc, [policy EXCEPT !.Rules[m] = rule]),
                             [h EXCEPT ![rule].Ordinal = h[policy.Rules[m]].Ordinal],
                             mrm, FALSE, FALSE)
                 ELSE Result(SetPolicy(rc, [policy EXCEPT !.Rules = Append(policy.Rules, rule)]),
                             h, mrm, FALSE, FALSE)
        ELSE Result(SetPolicy(rc, createPolicy(<<rule>>, policyName, rc.Virtual.Partition)),
                    h, mrm, FALSE, FALSE)

(***************************************************************************)
(* Policy.RemoveRules                                                      *)
(***************************************************************************)
\* pol.RemoveRuleAt(offset), offset 0-based
RemoveRuleAt(rules, offset) ==
    IF offset >= Len(rules) THEN rules ELSE RemoveAt(rules, offset + 1)

\* the loop of lines 868-870 over ruleOffsets, last offset first
RECURSIVE removeOffsets(_, _, _)
removeOffsets(rules, ruleOffsets, i) ==
    IF i < 1 THEN rules
    ELSE removeOffsets(RemoveRuleAt(rules, ruleOffsets[i]), ruleOffsets, i - 1)

\* lines 872-874: rule.Ordinal = i for every remaining rule
fixOrdinalsSkipped(rules, h) == h

fixOrdinals(rules, h) ==
    [r \in DOMAIN h |->
        IF \E i \in 1..Len(rules) : rules[i] = r
        THEN [h[r] EXCEPT !.Ordinal =
                 (CHOOSE i \in 1..Len(rules) :
                     rules[i] = r /\ \A k \in 1..Len(rules) : rules[k] = r => k <= i) - 1]
        ELSE h[r]]

\* pol.RemoveRules(ruleOffsets): the rules left, the heap, and whether the
\* renumbering dereferenced a nil *Rule
RemoveRules(rules, h, ruleOffsets) ==
    IF Len(ruleOffsets) > 0
    THEN LET left == removeOffsets(rules, ruleOffsets, Len(ruleOffsets))
         IN  IF NilRule \in Range(left)
             THEN [rules |-> left, heap |-> h, panic |-> TRUE]
             ELSE [rules |-> left, heap |-> fixOrdinals(left, h), panic |-> FALSE]
    ELSE [rules |-> rules, heap |-> h, panic |-> FALSE]

(***************************************************************************)
(* ResourceConfig.MergeRules                                               *)
(***************************************************************************)
\* a mergedRuleEntry; MergedActions is a Go map, nil in the zero entry and in
\* a mergee's entry.  A stored map is never empty (UnmergeRule deletes the
\* entry when it empties the map), so the empty function stands for nil.
mergedRuleEntry(name, others, actions, original) ==
    [RuleName |-> name, OtherRuleNames |-> others, MergedActions |-> actions,
     OriginalRule |-> original]
ZeroEntry == mergedRuleEntry("", <<>>, <<>>, NilRule)

\* mergedRulesMap[key][name], the zero entry when either key is missing
EntryOf(mrm, key, name) ==
    IF key \in DOMAIN mrm /\ name \in DOMAIN mrm[key] THEN mrm[key][name] ELSE ZeroEntry

\* lines 1016-1035: numMatches counts the pairs (k, l) of name-blind equal
\* conditions; the rules match when the counts of conditions are equal and
\* numMatches equals that count
conditionsMatch(ci, cj) ==
    /\ Len(ci) = Len(cj)
    /\ Cardinality({kl \in (1..Len(ci)) \X (1..Len(cj)) :
                       nameBlindEqual(ci[kl[1]], cj[kl[2]])}) = Len(ci)

\* lines 1053-1071 (and 1083-1101): the loop over the mergee's actions.
\* An action with no name-blind equal on the merger is appended to the
\* merger; MergedActions is made anew at each such action (line 1068), so the
\* map ends holding the last one only: `last` is that action, 0 for none.
RECURSIVE mergeActions(_, _, _, _, _)
mergeActions(h, mergee, merger, k, last) ==
    IF k > Len(h[mergee].Actions) THEN [heap |-> h, last |-> last]
    ELSE LET a == h[mergee].Actions[k]
             found == \E l \in 1..Len(h[merger].Actions) :
                          nameBlindEqual(ActionObj(a), ActionObj(h[merger].Actions[l]))
         IN  IF found
             THEN mergeActions(h, mergee, merger, k + 1, last)
             ELSE mergeActions([h EXCEPT ![merger].Actions = Append(@, a)],
                               mergee, merger, k + 1, a)

\* lines 1113-1141: the two entries written for a merge that moved an action
recordMerge(mrm, key, h, mergee, merger, last) ==
    LET mergeeName == h[mergee].Name
        mergerName == h[merger].Name
        sub == IF key \in DOMAIN mrm THEN mrm[key] ELSE <<>>
        hasMerger == mergerName \in DOMAIN sub
        hasMergee == mergeeName \in DOMAIN sub
        others == IF hasMerger /\ mergeeName \notin Range(sub[mergerName].OtherRuleNames)
                  THEN <<mergeeName>> \o sub[mergerName].OtherRuleNames
                  ELSE <<mergeeName>>
        old == IF hasMerger THEN sub[mergerName].MergedActions ELSE <<>>
        actions == [n \in DOMAIN old \cup {mergeeName} |->
                       IF n \in DOMAIN old THEN old[n] ELSE <<last>>]
        mergerEntry == mergedRuleEntry(mergerName, others, actions,
                           IF hasMerger THEN sub[mergerName].OriginalRule ELSE merger)
        mergeeEntry == mergedRuleEntry(mergeeName, <<mergerName>>, <<>>,
                           IF hasMergee THEN sub[mergeeName].OriginalRule ELSE mergee)
    IN  MapPut(mrm, key, MapPut(MapPut(sub, mergerName, mergerEntry), mergeeName, mergeeEntry))

mergePairFoldsSecond(rules, st, key, i, j) ==
    IF HasSuffixReset(st.heap[rules[j]].Name) THEN st
    ELSE IF ~conditionsMatch(st.heap[rules[i]].Conditions, st.heap[rules[j]].Conditions)
    THEN st
    ELSE [heap |-> st.heap, mrm |-> st.mrm, del |-> st.del \cup {j}]

\* the body of the inner loop for the pair (i, j), lines 1013-1143.
\* st = [heap, mrm, del]: del holds the positions appended to
\* iDeletedRuleIndices and jDeletedRuleIndices.
mergePair(rules, st, key, i, j) ==
    LET h == st.heap
        iName == h[rules[i]].Name
        jName == h[rules[j]].Name
    IN  IF HasSuffixReset(jName) THEN st
        ELSE IF ~conditionsMatch(h[rules[i]].Conditions, h[rules[j]].Conditions) THEN st
        ELSE IF HasMarker(iName) \/ (~HasMarker(iName) /\ HasMarker(jName))
        THEN LET mergee == IF HasMarker(iName) THEN rules[i] ELSE rules[j]
                 merger == IF HasMarker(iName) THEN rules[j] ELSE rules[i]
                 gone == IF HasMarker(iName) THEN i ELSE j
                 m == mergeActions(h, mergee, merger, 1, 0)
             IN  [heap |-> m.heap,
                  mrm |-> IF m.last # 0
                          THEN recordMerge(st.mrm, key, m.heap, mergee, merger, m.last)
                          ELSE st.mrm,
                  del |-> st.del \cup {gone}]
        ELSE st

\* the two nested loops, lines 1007-1145
RECURSIVE mergeLoop(_, _, _, _, _)
mergeLoop(rules, st, key, i, j) ==
    IF i > Len(rules) THEN st
    ELSE IF j > Len(rules) \/ HasSuffixReset(st.heap[rules[i]].Name)
    THEN mergeLoop(rules, st, key, i + 1, i + 2)
    ELSE mergeLoop(rules, mergePair(rules, st, key, i, j), key, i, j + 1)

\* lines 1147-1173: the rules left when the positions in del are removed
\* (sorted, made unique, removed in ascending order with the later positions
\* shifted)
removeMerged(rules, del) ==
    LET keep == {i \in 1..Len(rules) : i \notin del}
        RECURSIVE sel(_)
        sel(i) == IF i > Len(rules) THEN <<>>
                  ELSE IF i \in keep THEN <<rules[i]>> \o sel(i + 1) ELSE sel(i + 1)
    IN  sel(1)

\* rc.MergeRules(mergedRulesMap)
MergeRules(rc, h, mrm) ==
    LET pi == FindPolicy(rc, "forwarding")
    IN  IF pi = 0 THEN Result(rc, h, mrm, FALSE, FALSE)
        ELSE LET policy == rc.Policies[pi]
                 rules == policy.Rules
             IN  IF NilRule \in Range(rules)
                 THEN Result(rc, h, mrm, TRUE, FALSE)
                 ELSE LET st == mergeLoop(rules, [heap |-> h, mrm |-> mrm, del |-> {}],
                                          rc.Virtual.Name, 1, 2)
                      IN  Result(SetPolicy(rc, [policy EXCEPT
                                                  !.Rules = removeMerged(rules, st.del)]),
                                 st.heap, st.mrm, FALSE, FALSE)

(***************************************************************************)
(* ResourceConfig.UnmergeRule                                              *)
(***************************************************************************)
\* lines 911-918: every rule named in entry.OtherRuleNames is appended to the
\* policy from the OriginalRule of its own entry (nil when it has none) and
\* that entry is deleted
restoreMergeesDropsRule(rules, mrm, rsName, others, n) ==
    [rules |-> rules,
     mrm |-> MapPut(mrm, rsName,
                    [x \in DOMAIN mrm[rsName] \ Range(others) |-> mrm[rsName][x]])]

RECURSIVE restoreMergees(_, _, _, _, _)
restoreMergees(rules, mrm, rsName, others, n) ==
    IF n > Len(others) THEN [rules |-> rules, mrm |-> mrm]
    ELSE restoreMergees(Append(rules, EntryOf(mrm, rsName, others[n]).OriginalRule),
                        MapPut(mrm, rsName, MapDelete(mrm[rsName], others[n])),
                        rsName, others, n + 1)

\* lines 930-935: append(s[:i], s[i+1:]...) shifts the tail of the backing
\* array left in place, and the result is kept in the local copy of the entry
\* only: the entry stored in the map keeps its length and now reads the
\* shifted array, its last element twice
otherNamesStored(others, ruleName) ==
    LET hits == {i \in 1..Len(others) : others[i] = ruleName}
    IN  IF hits = {} THEN others
        ELSE LET i == CHOOSE x \in hits : \A y \in hits : x <= y
             IN  [k \in 1..Len(others) |->
                     IF k < i THEN others[k]
                     ELSE IF k < Len(others) THEN others[k + 1]
                     ELSE others[Len(others)]]

\* lines 952-958: the (0-based) positions in `actions` of the pointers in
\* mergedActions, in the order the two loops find them
RECURSIVE actionIndices(_, _, _, _)
actionIndices(mergedActions, actions, j, k) ==
    IF j > Len(mergedActions) THEN <<>>
    ELSE IF k > Len(actions) THEN actionIndices(mergedActions, actions, j + 1, 1)
    ELSE IF mergedActions[j] = actions[k]
         THEN <<k - 1>> \o actionIndices(mergedActions, actions, j, k + 1)
         ELSE actionIndices(mergedActions, actions, j, k + 1)

\* lines 961-966: each position is removed in turn and all positions are
\* decremented; a position outside the slice panics.  n counts the positions
\* done, so the n-th position has been decremented n - 1 times.
RECURSIVE deleteActions(_, _, _)
deleteActions(actions, indices, n) ==
    IF n > Len(indices) THEN [actions |-> actions, panic |-> FALSE]
    ELSE LET index == indices[n] - (n - 1)
         IN  IF index < 0 \/ index >= Len(actions)
             THEN [actions |-> actions, panic |-> TRUE]
             ELSE deleteActions(RemoveAt(actions, index + 1), indices, n + 1)

\* line 985: the config's map is deleted once it holds no entry
dropEmpty(mrm, rsName) ==
    IF rsName \in DOMAIN mrm /\ DOMAIN mrm[rsName] = {}
    THEN MapDelete(mrm, rsName)
    ELSE mrm

\* lines 899-923: ruleName is a merger
unmergeMerger(rc, h, mrm, rsName, ruleName, entry) ==
    LET pi == FindPolicy(rc, "forwarding")
    IN  IF pi = 0 THEN Result(rc, h, mrm, TRUE, FALSE)
        ELSE
        LET policy == rc.Policies[pi]
            at == findRule(policy.Rules, h, entry.RuleName, "", FALSE, 1)
        IN  IF at = -1 THEN Result(rc, h, mrm, TRUE, FALSE)
            ELSE
            LET rules1 == IF at > 0 THEN RemoveAt(policy.Rules, at) ELSE policy.Rules
                back == restoreMergees(rules1, mrm, rsName, entry.OtherRuleNames, 1)
                rc1 == SetPolicy(rc, [policy EXCEPT !.Rules = back.rules])
                mrm1 == MapPut(back.mrm, rsName, MapDelete(back.mrm[rsName], ruleName))
                merged == MergeRules(rc1, h, mrm1)
            IN  Result(merged.rc, merged.heap, dropEmpty(merged.mrm, rsName),
                       merged.panic, TRUE)

\* lines 925-982: ruleName was merged into the rule entry.OtherRuleNames[0]
unmergeMergee(rc, h, mrm, rsName, ruleName, entry) ==
    LET mergerRuleName == entry.OtherRuleNames[1]
        hasMerger == mergerRuleName \in DOMAIN mrm[rsName]
        mergerRuleEntry == EntryOf(mrm, rsName, mergerRuleName)
        mergedActions == IF ruleName \in DOMAIN mergerRuleEntry.MergedActions
                         THEN mergerRuleEntry.MergedActions[ruleName]
                         ELSE <<>>
        actionsLeft == MapDelete(mergerRuleEntry.MergedActions, ruleName)
        sub1 == IF ~hasMerger THEN mrm[rsName]
                ELSE IF DOMAIN actionsLeft = {} THEN MapDelete(mrm[rsName], mergerRuleName)
                ELSE MapPut(mrm[rsName], mergerRuleName,
                            [mergerRuleEntry EXCEPT
                                !.OtherRuleNames = otherNamesStored(@, ruleName),
                                !.MergedActions = actionsLeft])
        mrm1 == MapPut(mrm, rsName, MapDelete(sub1, ruleName))
        pi == FindPolicy(rc, "forwarding")
    IN  IF pi = 0 THEN Result(rc, h, mrm1, TRUE, FALSE)
        ELSE
        LET policy == rc.Policies[pi]
            at == findRule(policy.Rules, h, mergerRuleName, "", FALSE, 1)
        IN  IF at = -1 THEN Result(rc, h, mrm1, TRUE, FALSE)
            ELSE IF at = 0
            THEN Result(IF Len(policy.Rules) = 0 THEN RemovePolicy(rc, policy)
                        ELSE SetPolicy(rc, policy),
                        h, dropEmpty(mrm1, rsName), FALSE, TRUE)
            ELSE
            LET merger == policy.Rules[at]
                d == deleteActions(h[merger].Actions,
                                   actionIndices(mergedActions, h[merger].Actions, 1, 1), 1)
                h1 == [h EXCEPT ![merger].Actions = d.actions]
                rules1 == IF Len(d.actions) = 0 THEN RemoveAt(policy.Rules, at)
                          ELSE policy.Rules
                policy1 == [policy EXCEPT !.Rules = rules1]
            IN  IF d.panic THEN Result(rc, h, mrm1, TRUE, FALSE)
                ELSE Result(IF Len(rules1) = 0 THEN RemovePolicy(rc, policy1)
                            ELSE SetPolicy(rc, policy1),
                            h1, dropEmpty(mrm1, rsName), FALSE, TRUE)

\* rc.UnmergeRule(ruleName, mergedRulesMap)
UnmergeRule(rc, h, mrm, ruleName) ==
    LET rsName == rc.Virtual.Name
    IN  IF rsName \notin DOMAIN mrm THEN Result(rc, h, mrm, FALSE, FALSE)
        ELSE IF ruleName \notin DOMAIN mrm[rsName] THEN Result(rc, h, mrm, FALSE, FALSE)
        ELSE LET entry == mrm[rsName][ruleName]
             IN  IF DOMAIN entry.MergedActions # {}
                 THEN unmergeMerger(rc, h, mrm, rsName, ruleName, entry)
                 ELSE unmergeMergee(rc, h, mrm, rsName, ruleName, entry)

(***************************************************************************)
(* ResourceConfig.DeleteRuleFromPolicy                                     *)
(***************************************************************************)
\* rc.DeleteRuleFromPolicy(policyName, rule, mergedRulesMap); of rule only
\* Name and FullURI are read
DeleteRuleFromPolicy(rc, h, mrm, policyName, ruleName, ruleURI) ==
    LET pi == FindPolicyByName(rc, policyName)
    IN  IF pi = 0 THEN Result(rc, h, mrm, FALSE, FALSE)
        ELSE
        LET policy == rc.Policies[pi]
            i == findRule(policy.Rules, h, ruleName, ruleURI, TRUE, 1)
        IN  IF i = -1 THEN Result(rc, h, mrm, TRUE, FALSE)
            ELSE IF i = 0 THEN Result(rc, h, mrm, FALSE, FALSE)
            ELSE
            LET u == UnmergeRule(rc, h, mrm, ruleName)
            IN  IF u.panic \/ u.ret THEN u
                ELSE IF Len(policy.Rules) = 1
                THEN Result(RemovePolicy(rc, policy), h, mrm, FALSE, FALSE)
                ELSE LET rr == RemoveRules(policy.Rules, h, <<i - 1>>)
                     IN  Result(SetPolicy(rc, [policy EXCEPT !.Rules = rr.rules]),
                                rr.heap, mrm, rr.panic, FALSE)

(***************************************************************************)
(* Resources.updateOldConfig                                               *)
(***************************************************************************)
\* rc.copyConfig(cfg).  Lines 695-696 and 706-713 give the copy slices of its
\* own for the policy references, the policies, Controls and Requires.  Lines
\* 716-727 allocate new Rule objects, but line 728 then copies cfg's rule
\* pointers over them, and with both sides pointing to the same rules the
\* copies of lines 729-735 copy each rule's slices onto themselves: the copy
\* holds the rule pointers of cfg.
copyConfig(cfg) ==
    [Virtual |-> cfg.Virtual,
     Policies |-> [i \in 1..Len(cfg.Policies) |->
                      [Name |-> cfg.Policies[i].Name,
                       Partition |-> cfg.Policies[i].Partition,
                       Controls |-> cfg.Policies[i].Controls,
                       Rules |-> [j \in 1..Len(cfg.Policies[i].Rules) |->
                                     cfg.Policies[i].Rules[j]]]]]

\* rs.updateOldConfig(): the new value of oldRsMap
updateOldConfig(rsm) == [k \in DOMAIN rsm |-> copyConfig(rsm[k])]

(***************************************************************************)
(* Names of virtuals and pools.  A string whose characters the code looks  *)
(* at is given as a sequence of pieces: each of the characters             *)
(* [ ] . : / % - = and the blank is a piece of its own, the runs of other  *)
(* characters between them are the other pieces.  Join gives the string.   *)
(***************************************************************************)
RECURSIVE Join(_)
Join(p) == IF p = <<>> THEN "" ELSE Head(p) \o Join(Tail(p))

\* strings.Trim(s, cutset), from the left and from the right
RECURSIVE TrimLeft(_, _)
TrimLeft(s, cutset) ==
    IF s # <<>> /\ Head(s) \in cutset THEN TrimLeft(Tail(s), cutset) ELSE s
RECURSIVE TrimRight(_, _)
TrimRight(s, cutset) ==
    IF s # <<>> /\ s[Len(s)] \in cutset
    THEN TrimRight(SubSeq(s, 1, Len(s) - 1), cutset)
    ELSE s
Trim(s, cutset) == TrimRight(TrimLeft(s, cutset), cutset)

\* a formatter that leaves the dots of a name alone
AS3NameFormatterKeepsDots(s) ==
    [i \in 1..Len(s) |->
        IF s[i] \in {":", "/", "-", "="} THEN "_"
        ELSE IF s[i] = "%" THEN "."
        ELSE s[i]]
\* AS3NameFormatter: one pass of the replacer over the string
AS3NameFormatter(s) ==
    [i \in 1..Len(s) |->
        IF s[i] \in {".", ":", "/", "-", "="} THEN "_"
        ELSE IF s[i] = "%" THEN "."
        ELSE s[i]]

\* fmt.Sprintf("f5_crd_virtualserver_%s_%d", ip, port)
formatVirtualServerName(ip, port) ==
    "f5_crd_virtualserver_" \o Join(AS3NameFormatter(Trim(ip, {"[", "]"})))
    \o "_" \o ToString(port)

formatVirtualServerPoolName(namespace, svc, nodeMemberLabel) ==
    LET poolName == <<namespace, "_">> \o svc
    IN  Join(AS3NameFormatter(IF nodeMemberLabel # <<>>
                              THEN poolName \o <<"_">> \o nodeMemberLabel
                              ELSE poolName))

\* crMgr.virtualPorts(vs): http always, https when a TLSProfile is named
virtualPorts(vs) ==
    IF vs.TLSProfileName # ""
    THEN <<[protocol |-> "http", port |-> 80], [protocol |-> "https", port |-> 443]>>
    ELSE <<[protocol |-> "http", port |-> 80]>>

\* the pieces that are runs of digits
DigitRuns == {"1", "2", "10", "20"}
\* a split at the last % of the address
splitAtLastPercent(address) ==
    LET n == Len(address)
        runs == {k \in 2..n : /\ \A i \in k..n : address[i] \in DigitRuns
                              /\ address[k - 1] = "%"}
    IN  IF runs # {}
        THEN LET k == CHOOSE x \in runs : TRUE
             IN  [ip |-> SubSeq(address, 1, k - 2), rd |-> SubSeq(address, k, n)]
        ELSE [ip |-> address, rd |-> <<>>]
\* the regular expression ^([^%]*)%(\d+)$ : the route domain is the run of
\* digits that ends the address, after its only %
split_ip_with_route_domain(address) ==
    LET n == Len(address)
        runs == {k \in 2..n : /\ \A i \in k..n : address[i] \in DigitRuns
                              /\ address[k - 1] = "%"
                              /\ \A i \in 1..(k - 2) : address[i] # "%"}
    IN  IF runs # {}
        THEN LET k == CHOOSE x \in runs : TRUE
             IN  [ip |-> SubSeq(address, 1, k - 2), rd |-> SubSeq(address, k, n)]
        ELSE [ip |-> address, rd |-> <<>>]

\* net.ParseIP on the addresses used here: dotted decimal is IPv4, "::1" is
\* IPv6, anything else is no address
ParseIP(ip) ==
    IF /\ Len(ip) = 7
       /\ \A i \in {1, 3, 5, 7} : ip[i] \in DigitRuns
       /\ \A i \in {2, 4, 6} : ip[i] = "."
    THEN "v4"
    ELSE IF ip = <<":", ":", "1">> THEN "v6"
    ELSE "nil"

\* a nil *virtualAddress; SetVirtualAddress never builds this value
NilVirtualAddress == [BindAddr |-> "", Port |-> 0]

\* a Virtual whose destination stays when the address is no IP address
SetVirtualAddressKeeps(v, bindAddr, port) ==
    LET sp == split_ip_with_route_domain(bindAddr)
        rd == IF Len(sp.rd) > 0 THEN <<"%">> \o sp.rd ELSE sp.rd
        sep == IF ParseIP(sp.ip) = "v4" THEN ":" ELSE "."
    IN  IF bindAddr = <<>> /\ port = 0
        THEN [v EXCEPT !.VirtualAddress = NilVirtualAddress]
        ELSE [v EXCEPT
                 !.VirtualAddress = [BindAddr |-> Join(bindAddr), Port |-> port],
                 !.Destination =
                     IF ParseIP(sp.ip) # "nil"
                     THEN "/" \o v.Partition \o "/" \o Join(sp.ip) \o Join(rd)
                          \o sep \o ToString(port)
                     ELSE @]
\* v.SetVirtualAddress(bindAddr, port)
SetVirtualAddress(v, bindAddr, port) ==
    IF bindAddr = <<>> /\ port = 0
    THEN [v EXCEPT !.Destination = "", !.VirtualAddress = NilVirtualAddress]
    ELSE LET sp == split_ip_with_route_domain(bindAddr)
             rd == IF Len(sp.rd) > 0 THEN <<"%">> \o sp.rd ELSE sp.rd
             addr == ParseIP(sp.ip)
             sep == IF addr = "v4" THEN ":" ELSE "."
         IN  [v EXCEPT
                 !.VirtualAddress = [BindAddr |-> Join(bindAddr), Port |-> port],
                 !.Destination =
                     IF addr # "nil"
                     THEN "/" \o v.Partition \o "/" \o Join(sp.ip) \o Join(rd)
                          \o sep \o ToString(port)
                     ELSE ""]

\* processVirtualServerRules: a new Rule object for each pool entry of the
\* VirtualServer, taken in order from the heap cells no pointer reaches
RECURSIVE processVirtualServerRules(_, _)
processVirtualServerRules(n, free) ==
    IF n = 0 THEN <<>>
    ELSE LET r == CHOOSE x \in free : \A y \in free : x <= y
         IN  <<r>> \o processVirtualServerRules(n - 1, free \ {r})

\* the config that createRSConfigFromVirtualServer(vs, pStruct) builds
buildRSConfig(vs, pStruct, rules) ==
    LET bindAddr == vs.VirtualServerAddress
        name == formatVirtualServerName(bindAddr, pStruct.port)
        pools == [i \in 1..Len(vs.Pools) |->
                     [Name |-> formatVirtualServerPoolName(vs.Namespace,
                                   vs.Pools[i].Service, vs.Pools[i].NodeMemberLabel),
                      Partition |-> crMgrPartition,
                      ServiceName |-> Join(vs.Pools[i].Service),
                      ServicePort |-> vs.Pools[i].ServicePort,
                      NodeMemberLabel |-> Join(vs.Pools[i].NodeMemberLabel)]]
        plcy == createPolicy(rules, name \o "_policy", vs.Namespace)
        virtual == [Name |-> name, Partition |-> crMgrPartition, Enabled |-> TRUE,
                    VirtualAddress |-> NilVirtualAddress, Destination |-> "",
                    Policies |-> <<>>, Profiles |-> <<>>, IRules |-> <<>>]
    IN  SetPolicy([MetaData |-> [rscName |-> vs.Name, ResourceType |-> "VirtualServer"],
                   Virtual |-> SetVirtualAddress(virtual, bindAddr, pStruct.port),
                   Pools |-> pools,
                   Policies |-> <<>>],
                  plcy)

\* a store that keeps the entry a name already has
storeConfigKeepsFirst(rsm, cfg) ==
    IF cfg.Virtual.Name \in DOMAIN rsm THEN rsm ELSE MapPut(rsm, cfg.Virtual.Name, cfg)

\* crMgr.resources.rsMap[cfg.Virtual.Name] = &cfg
storeConfig(rsm, cfg) == MapPut(rsm, cfg.Virtual.Name, cfg)

(***************************************************************************)
(* CRManager.handleVirtualServerTLS                                        *)
(***************************************************************************)
DEFAULT_PARTITION == "Common"
DEFAULT_HTTPS_PORT == 443
HttpRedirectIRuleName == "http_redirect_irule"
HttpsRedirectDgName == "https_redirect_dg"

\* the namespaces crMgr.getNamespaceInformer finds an informer for
InformerNamespaces == {"ns1"}

NameRef(name, partition) == [Name |-> name, Partition |-> partition]

\* httpRedirectIRule(port): the text of the iRule
httpRedirectIRule(port) == "redirect to https port " \o ToString(port)

\* crMgr.addIRule(name, partition, rule): the new irulesMap
addIRule(m, name, partition, rule) ==
    LET key == NameRef(name, partition)
    IN  IF key \in DOMAIN m THEN m
        ELSE MapPut(m, key, [Name |-> name, Partition |-> partition, Code |-> rule])

\* crMgr.addInternalDataGroup(name, partition): the new intDgMap; the value
\* made is an empty DataGroupNamespaceMap
addInternalDataGroup(m, name, partition) ==
    LET key == NameRef(name, partition)
    IN  IF key \in DOMAIN m THEN m ELSE MapPut(m, key, <<>>)

JoinBigipPath(partition, objName) ==
    IF objName = "" THEN ""
    ELSE IF partition = "" THEN objName
    ELSE "/" \o partition \o "/" \o objName

\* a Virtual that takes every reference it is handed
AddIRuleAppends(irules, ruleName) ==
    [IRules |-> Append(irules, ruleName), ret |-> TRUE]

\* v.AddIRule(ruleName): the new v.IRules and the return value
AddIRule(irules, ruleName) ==
    IF ruleName \in Range(irules)
    THEN [IRules |-> irules, ret |-> FALSE]
    ELSE [IRules |-> Append(irules, ruleName), ret |-> TRUE]

\* strings.TrimPrefix(s, c), strings.TrimSpace(s), strings.Split(s, sep)
TrimPrefix(s, c) == IF s # <<>> /\ Head(s) = c THEN Tail(s) ELSE s
TrimSpace(s) == Trim(s, {" "})
RECURSIVE Split(_, _)
Split(s, sep) ==
    LET pos == {i \in 1..Len(s) : s[i] = sep}
    IN  IF pos = {} THEN <<s>>
        ELSE LET i == CHOOSE x \in pos : \A y \in pos : x <= y
             IN  <<SubSeq(s, 1, i - 1)>> \o Split(SubSeq(s, i + 1, Len(s)), sep)

ConvertStringToProfileRef(profileName, context, ns) ==
    LET profName == TrimSpace(TrimPrefix(profileName, "/"))
        parts == Split(profName, "/")
    IN  IF Len(parts) = 2
        THEN [Partition |-> Join(parts[1]), Name |-> Join(parts[2]),
              Context |-> context, Namespace |-> ns]
        ELSE IF Len(parts) = 1
        THEN [Partition |-> DEFAULT_PARTITION, Name |-> Join(profileName),
              Context |-> context, Namespace |-> ns]
        ELSE [Partition |-> "", Name |-> "", Context |-> context, Namespace |-> ns]

\* the maps of the CRManager a pass reads and writes
TLSState(ctx, irules, dgs, fwd, custom) ==
    [SSLContext |-> ctx, irulesMap |-> irules, intDgMap |-> dgs,
     svcFwdRulesMap |-> fwd, customProfiles |-> custom]

\* what a pass hands back: the config, the maps, the return value, the number
\* of Get calls it made for a secret, and whether it panicked
TLSResult(rc, st, ret, gets, panic) ==
    [rc |-> rc, st |-> st, ret |-> ret, gets |-> gets, panic |-> panic]

\* crMgr.createSecretSslProfile(rsCfg, secret): an error for a secret without
\* certificate and key, else the profile built from them is stored under the
\* secret's name and the config's name
createSecretSslProfile(rc, secret, custom) ==
    IF secret.Data # "cert"
    THEN [err |-> TRUE, customProfiles |-> custom]
    ELSE [err |-> FALSE,
          customProfiles |->
              MapPut(custom, [Name |-> secret.Name, ResourceName |-> rc.Virtual.Name],
                     [Partition |-> rc.Virtual.Partition, Context |-> "clientside",
                      Cert |-> secret.Data])]

\* lines 437-448: the profiles of a TLSProfile that refers to the BIG-IP
bigipProfiles(rc, tls, vsNamespace) ==
    LET p1 == IF tls.ClientSSL # <<>>
              THEN AddOrUpdateProfile(rc.Virtual.Profiles,
                       ConvertStringToProfileRef(tls.ClientSSL, "clientside",
                                                 vsNamespace)).Profiles
              ELSE rc.Virtual.Profiles
        p2 == IF tls.ServerSSL # <<>>
              THEN AddOrUpdateProfile(p1,
                       ConvertStringToProfileRef(tls.ServerSSL, "serverside",
                                                 vsNamespace)).Profiles
              ELSE p1
    IN  [rc EXCEPT !.Virtual.Profiles = p2]

\* a resolution that asks the cluster on every pass
resolveSecretAlwaysFetches(ctx, cluster, vsNamespace, clientSSL) ==
    IF <<vsNamespace, clientSSL>> \in DOMAIN cluster
    THEN [found |-> TRUE, secret |-> cluster[<<vsNamespace, clientSSL>>],
          SSLContext |-> MapPut(ctx, clientSSL, cluster[<<vsNamespace, clientSSL>>]),
          gets |-> 1]
    ELSE [found |-> FALSE, secret |-> [Namespace |-> "", Name |-> "", Data |-> ""],
          SSLContext |-> ctx, gets |-> 1]

\* lines 455 and 469-476: the secret from SSLContext, or from the cluster and
\* then kept in SSLContext
resolveSecret(ctx, cluster, vsNamespace, clientSSL) ==
    IF clientSSL \in DOMAIN ctx
    THEN [found |-> TRUE, secret |-> ctx[clientSSL], SSLContext |-> ctx, gets |-> 0]
    ELSE IF <<vsNamespace, clientSSL>> \in DOMAIN cluster
    THEN [found |-> TRUE, secret |-> cluster[<<vsNamespace, clientSSL>>],
          SSLContext |-> MapPut(ctx, clientSSL, cluster[<<vsNamespace, clientSSL>>]),
          gets |-> 1]
    ELSE [found |-> FALSE, secret |-> [Namespace |-> "", Name |-> "", Data |-> ""],
          SSLContext |-> ctx, gets |-> 1]

\* lines 451-491: the profile of a TLSProfile that refers to a secret
secretProfile(rc, tls, vsNamespace, st, cluster) ==
    LET clientSSL == Join(tls.ClientSSL)
        r == resolveSecret(st.SSLContext, cluster, vsNamespace, clientSSL)
        st1 == [st EXCEPT !.SSLContext = r.SSLContext]
    IN  IF ~r.found THEN TLSResult(rc, st1, FALSE, r.gets, FALSE)
        ELSE LET c == createSecretSslProfile(rc, r.secret, st.customProfiles)
                 profRef == [Partition |-> rc.Virtual.Partition, Name |-> clientSSL,
                             Context |-> "clientside", Namespace |-> vsNamespace]
             IN  IF c.err THEN TLSResult(rc, st1, FALSE, r.gets, FALSE)
                 ELSE TLSResult(
                          [rc EXCEPT !.Virtual.Profiles =
                               AddOrUpdateProfile(@, profRef).Profiles],
                          [st1 EXCEPT !.customProfiles = c.customProfiles],
                          TRUE, r.gets, FALSE)

\* a plaintext pass that redirects under every declared traffic policy
httpTrafficAlwaysRedirects(rc, vs, st) ==
    IF vs.HTTPTraffic # ""
    THEN LET ruleName == HttpRedirectIRuleName \o "_" \o ToString(DEFAULT_HTTPS_PORT)
         IN  TLSResult(
                 [rc EXCEPT !.Virtual.IRules =
                      AddIRule(@, JoinBigipPath(DEFAULT_PARTITION, ruleName)).IRules],
                 [st EXCEPT
                     !.irulesMap = addIRule(@, ruleName, DEFAULT_PARTITION,
                                            httpRedirectIRule(DEFAULT_HTTPS_PORT)),
                     !.intDgMap = addInternalDataGroup(@, HttpsRedirectDgName,
                                                       DEFAULT_PARTITION)],
                 FALSE, 0, FALSE)
    ELSE TLSResult(rc, st, FALSE, 0, FALSE)

\* lines 499-527: the pass over the plaintext virtual of a VirtualServer with
\* a TLSProfile
httpTraffic(rc, vs, st) ==
    IF vs.HTTPTraffic = "redirect"
    THEN LET ruleName == HttpRedirectIRuleName \o "_" \o ToString(DEFAULT_HTTPS_PORT)
         IN  TLSResult(
                 [rc EXCEPT !.Virtual.IRules =
                      AddIRule(@, JoinBigipPath(DEFAULT_PARTITION, ruleName)).IRules],
                 [st EXCEPT
                     !.irulesMap = addIRule(@, ruleName, DEFAULT_PARTITION,
                                            httpRedirectIRule(DEFAULT_HTTPS_PORT)),
                     !.intDgMap = addInternalDataGroup(@, HttpsRedirectDgName,
                                                       DEFAULT_PARTITION),
                     !.svcFwdRulesMap =
                         @ \cup {[Namespace |-> vs.Namespace,
                                  Service |-> Join(vs.Pools[i].Service),
                                  Host |-> vs.Host,
                                  Path |-> vs.Pools[i].Path] : i \in 1..Len(vs.Pools)}],
                 FALSE, 0, FALSE)
    ELSE TLSResult(rc, st, FALSE, 0, FALSE)

\* crMgr.handleVirtualServerTLS(rsCfg, vs, svcFwdRulesMap) with the
\* TLSProfiles and the secrets of the cluster
handleVirtualServerTLS(rsCfg, vs, st, indexer, cluster) ==
    IF vs.TLSProfileName = "" THEN TLSResult(rsCfg, st, FALSE, 0, FALSE)
    ELSE IF rsCfg.Virtual.VirtualAddress = NilVirtualAddress
    THEN TLSResult(rsCfg, st, FALSE, 0, TRUE)
    ELSE IF rsCfg.Virtual.VirtualAddress.Port = DEFAULT_HTTPS_PORT
    THEN LET vsNamespace == vs.Namespace
             tlsKey == vsNamespace \o "/" \o vs.TLSProfileName
         IN  IF vsNamespace \notin InformerNamespaces
             THEN TLSResult(rsCfg, st, FALSE, 0, FALSE)
             ELSE IF tlsKey \notin DOMAIN indexer
             THEN TLSResult(rsCfg, st, FALSE, 0, FALSE)
             ELSE LET tls == indexer[tlsKey]
                  IN  IF tls.Reference = "bigip"
                      THEN TLSResult(bigipProfiles(rsCfg, tls, vsNamespace), st,
                                     TRUE, 0, FALSE)
                      ELSE IF tls.Reference = "secret"
                      THEN secretProfile(rsCfg, tls, vsNamespace, st, cluster)
                      ELSE TLSResult(rsCfg, st, FALSE, 0, FALSE)
    ELSE httpTraffic(rsCfg, vs, st)

(***************************************************************************)
(* The operations on the store as steps                                    *)
(***************************************************************************)
MaxRules == 3
MaxNames == 2

\* the longest OtherRuleNames of the records of a config
NamesWithin(mrm, n) ==
    n \in DOMAIN mrm => \A x \in DOMAIN mrm[n] : Len(mrm[n][x].OtherRuleNames) <= MaxNames

\* the rules of the forwarding policy of a config (none without a policy)
ForwardingRules(rc) ==
    IF FindPolicy(rc, "forwarding") = 0 THEN <<>>
    ELSE rc.Policies[FindPolicy(rc, "forwarding")].Rules

\* the Rule objects some pointer of the program still reaches
RulesIn(rsm) ==
    UNION {UNION {Range(rsm[n].Policies[i].Rules) : i \in 1..Len(rsm[n].Policies)} :
           n \in DOMAIN rsm}
Reachable(rsm, old, mrm) ==
    (RulesIn(rsm) \cup RulesIn(old)
     \cup UNION {{mrm[n][x].OriginalRule : x \in DOMAIN mrm[n]} : n \in DOMAIN mrm})
    \ {NilRule}

\* a Rule object no pointer reaches is garbage: its slot reads as the rule a
\* caller would next allocate there
Collect(h, live) == [r \in RuleIds |-> IF r \in live THEN h[r] ELSE NewRule(r)]

\* the rules of a list of policies by value: what a reader of the config sees
PolicyView(rules, h) ==
    [i \in 1..Len(rules) |-> IF rules[i] = NilRule THEN NilRule ELSE h[rules[i]]]
ConfigView(rc, h) ==
    [i \in 1..Len(rc.Policies) |->
        [Name |-> rc.Policies[i].Name, Rules |-> PolicyView(rc.Policies[i].Rules, h)]]
StoreView(rsm, h) == [n \in DOMAIN rsm |-> ConfigView(rsm[n], h)]

\* whether the config has an entry in the merged-rules map
HasRecords(mrm, n) == n \in DOMAIN mrm /\ DOMAIN mrm[n] # {}

NoOp == [op |-> "", arg |-> "", ret |-> FALSE]

\* the state after an operation on config n returned res
CommitOp(n, res, last, pre) ==
    /\ NamesWithin(res.mrm, n)
    /\ lastOp' = last
    /\ panicked' = res.panic
    /\ IF res.panic
       THEN UNCHANGED <<rsMap, mergedRulesMap, heap, preMerge>>
       ELSE /\ rsMap' = [rsMap EXCEPT ![n] = res.rc]
            /\ mergedRulesMap' = res.mrm
            /\ heap' = Collect(res.heap, Reachable(rsMap', oldRsMap, res.mrm))
            /\ preMerge' = pre
    /\ UNCHANGED <<oldRsMap, profVars, depVars, tlsVars, passVars>>
Commit(n, res, op, arg, pre) ==
    CommitOp(n, res, [op |-> op, arg |-> arg, ret |-> res.ret], pre)

CallAddRuleToPolicy(allowed) ==
    \E n \in DOMAIN rsMap, r \in allowed :
        /\ ~panicked
        /\ r \notin Reachable(rsMap, oldRsMap, mergedRulesMap)
        /\ LET res == AddRuleToPolicy(rsMap[n], heap, mergedRulesMap, PolicyName, r)
           IN  /\ Len(ForwardingRules(res.rc)) <= MaxRules
               /\ Commit(n, res, "AddRuleToPolicy", NewRule(r).Name, <<>>)

CallDeleteRuleFromPolicy(allowed) ==
    \E n \in DOMAIN rsMap, r \in allowed :
        /\ ~panicked
        /\ LET res == DeleteRuleFromPolicy(rsMap[n], heap, mergedRulesMap, PolicyName,
                                           NewRule(r).Name, NewRule(r).FullURI)
           IN  CommitOp(n, res,
                        [op |-> "DeleteRuleFromPolicy", arg |-> NewRule(r).Name,
                         uri |-> NewRule(r).FullURI, ret |-> res.ret],
                        <<>>)

CallMergeRules ==
    \E n \in DOMAIN rsMap :
        /\ ~panicked
        /\ Commit(n, MergeRules(rsMap[n], heap, mergedRulesMap), "MergeRules", "",
                  IF HasRecords(mergedRulesMap, n) THEN <<>>
                  ELSE PolicyView(ForwardingRules(rsMap[n]), heap))

CallUnmergeRule(allowed) ==
    \E n \in DOMAIN rsMap, r \in allowed :
        /\ ~panicked
        /\ Commit(n, UnmergeRule(rsMap[n], heap, mergedRulesMap, NewRule(r).Name),
                  "UnmergeRule", NewRule(r).Name, preMerge)

\* rs.updateOldConfig(); copyConfig reads the fields of every rule (line 720)
CallUpdateOldConfig ==
    /\ ~panicked
    /\ lastOp' = [op |-> "updateOldConfig", arg |-> "", ret |-> FALSE]
    /\ IF NilRule \in RulesIn(rsMap)
       THEN /\ panicked' = TRUE
            /\ UNCHANGED <<oldRsMap, heap>>
       ELSE /\ panicked' = FALSE
            /\ oldRsMap' = updateOldConfig(rsMap)
            /\ heap' = Collect(heap, Reachable(rsMap, oldRsMap', mergedRulesMap))
    /\ UNCHANGED <<rsMap, mergedRulesMap, preMerge, profVars, depVars, tlsVars, passVars>>

\* crMgr.createRSConfigFromVirtualServer(vs, pStruct) for a port of the
\* VirtualServer; the Rule objects of a config it replaces become garbage
CallCreateRSConfigFromVirtualServer(objects) ==
    \E vs \in objects :
        \E i \in 1..Len(virtualPorts(vs)) :
            LET pStruct == virtualPorts(vs)[i]
                free == RuleIds \ Reachable(rsMap, oldRsMap, mergedRulesMap)
            IN  /\ ~panicked
                /\ Cardinality(free) >= Len(vs.Pools)
                /\ LET cfg == buildRSConfig(vs, pStruct,
                                  processVirtualServerRules(Len(vs.Pools), free))
                   IN  /\ rsMap' = storeConfig(rsMap, cfg)
                       /\ heap' = Collect(heap, Reachable(rsMap', oldRsMap, mergedRulesMap))
                       /\ lastOp' = [op |-> "createRSConfigFromVirtualServer",
                                     arg |-> [vs |-> vs, pStruct |-> pStruct],
                                     ret |-> cfg]
                /\ UNCHANGED <<oldRsMap, mergedRulesMap, panicked, preMerge,
                               profVars, depVars, tlsVars, passVars>>


\* crMgr.handleVirtualServerTLS(rsCfg, vs, svcFwdRulesMap) on the stored
\* config of a port of the VirtualServer
CallHandleVirtualServerTLS(objects) ==
    \E vs \in objects :
        \E i \in 1..Len(virtualPorts(vs)) :
            LET n == formatVirtualServerName(vs.VirtualServerAddress,
                                             virtualPorts(vs)[i].port)
            IN  /\ ~panicked
                /\ n \in DOMAIN rsMap
                /\ LET res == handleVirtualServerTLS(rsMap[n], vs,
                                  TLSState(SSLContext, irulesMap, intDgMap,
                                           svcFwdRulesMap, customProfiles),
                                  tlsIndexer, secrets)
                   IN  /\ lastOp' = [op |-> "handleVirtualServerTLS",
                                     arg |-> [vs |-> vs, name |-> n],
                                     found |-> rsMap[n].Virtual,
                                     ret |-> res.ret, gets |-> res.gets]
                       /\ panicked' = res.panic
                       /\ IF res.panic
                          THEN UNCHANGED <<rsMap, SSLContext, irulesMap, intDgMap,
                                           svcFwdRulesMap, customProfiles>>
                          ELSE /\ rsMap' = [rsMap EXCEPT ![n] = res.rc]
                               /\ SSLContext' = res.st.SSLContext
                               /\ irulesMap' = res.st.irulesMap
                               /\ intDgMap' = res.st.intDgMap
                               /\ svcFwdRulesMap' = res.st.svcFwdRulesMap
                               /\ customProfiles' = res.st.customProfiles
                /\ UNCHANGED <<oldRsMap, heap, mergedRulesMap, preMerge, profVars,
                               depVars, tlsIndexer, secrets, passVars>>

\* the cluster: a TLSProfile is created, updated or deleted
ClusterOp(what) == [op |-> what, arg |-> "", ret |-> FALSE]
UpdateTLSProfile(keys, tlsProfiles) ==
    \E k \in keys, t \in tlsProfiles :
        /\ ~panicked
        /\ (k \in DOMAIN tlsIndexer => tlsIndexer[k] # t)
        /\ tlsIndexer' = MapPut(tlsIndexer, k, t)
        /\ lastOp' = ClusterOp("TLSProfile")
        /\ UNCHANGED <<storeVars, profVars, depVars, passVars, SSLContext, irulesMap, intDgMap,
                       svcFwdRulesMap, customProfiles, secrets>>
DeleteTLSProfile ==
    \E k \in DOMAIN tlsIndexer :
        /\ ~panicked
        /\ tlsIndexer' = MapDelete(tlsIndexer, k)
        /\ lastOp' = ClusterOp("TLSProfile")
        /\ UNCHANGED <<storeVars, profVars, depVars, passVars, SSLContext, irulesMap, intDgMap,
                       svcFwdRulesMap, customProfiles, secrets>>

\* the cluster: a secret is created, updated or deleted
UpdateSecret(objects) ==
    \E x \in objects :
        /\ ~panicked
        /\ (<<x.Namespace, x.Name>> \in DOMAIN secrets
               => secrets[<<x.Namespace, x.Name>>] # x)
        /\ secrets' = MapPut(secrets, <<x.Namespace, x.Name>>, x)
        /\ lastOp' = ClusterOp("Secret")
        /\ UNCHANGED <<storeVars, profVars, depVars, passVars, SSLContext, irulesMap, intDgMap,
                       svcFwdRulesMap, customProfiles, tlsIndexer>>
DeleteSecret ==
    \E k \in DOMAIN secrets :
        /\ ~panicked
        /\ secrets' = MapDelete(secrets, k)
        /\ lastOp' = ClusterOp("Secret")
        /\ UNCHANGED <<storeVars, profVars, depVars, passVars, SSLContext, irulesMap, intDgMap,
                       svcFwdRulesMap, customProfiles, tlsIndexer>>

\* the records of a namespace are written into a data group that exists
WriteDataGroup(namespaces) ==
    \E k \in DOMAIN intDgMap, ns \in namespaces :
        /\ ~panicked
        /\ ns \notin DOMAIN intDgMap[k]
        /\ intDgMap' = [intDgMap EXCEPT ![k] =
                            MapPut(@, ns, [Name |-> k.Name, Partition |-> k.Partition,
                                           Records |-> {"foo.com/"}])]
        /\ lastOp' = ClusterOp("DataGroup")
        /\ UNCHANGED <<storeVars, profVars, depVars, passVars, SSLContext, irulesMap,
                       svcFwdRulesMap, customProfiles, tlsIndexer, secrets>>

(***************************************************************************)
(* Specifications                                                          *)
(***************************************************************************)
Init ==
    /\ profiles = <<>>
    /\ profArg = NoProfile
    /\ profRet = FALSE
    /\ objDeps = <<>>
    /\ depKey = NoDep
    /\ depNew = <<>>
    /\ added = <<>>
    /\ removed = <<>>
    /\ rsMap = [n \in RsNames |-> NewResourceConfig(n)]
    /\ oldRsMap = <<>>
    /\ heap = [r \in RuleIds |-> NewRule(r)]
    /\ mergedRulesMap = <<>>
    /\ panicked = FALSE
    /\ lastOp = NoOp
    /\ preMerge = <<>>
    /\ SSLContext = <<>>
    /\ irulesMap = <<>>
    /\ intDgMap = <<>>
    /\ svcFwdRulesMap = {}
    /\ customProfiles = <<>>
    /\ tlsIndexer = <<>>
    /\ secrets = <<>>
    /\ pc = [w \in Workers |-> "idle"]
    /\ mutex = 0
    /\ local = [w \in Workers |-> NoLocal]

NextProfiles == CallAddOrUpdateProfile
SpecProfiles == Init /\ [][NextProfiles]_vars

NextDeps == UpdateDependencies
SpecDeps == Init /\ [][NextDeps]_vars

\* the policy engine of one config, on the rules for foo.com/a that share one
\* host condition
EngineRules == {1, 2, 3, 4}
Next ==
    \/ CallAddRuleToPolicy(EngineRules)
    \/ CallDeleteRuleFromPolicy(EngineRules)
    \/ CallMergeRules
    \/ CallUnmergeRule(EngineRules)
Spec == Init /\ [][Next]_vars

\* the same engine on the rules for foo.com/b, whose condition lists differ
ConditionRules == {5, 6, 7, 8}
NextConditions ==
    \/ CallAddRuleToPolicy(ConditionRules)
    \/ CallDeleteRuleFromPolicy(ConditionRules)
    \/ CallMergeRules
    \/ CallUnmergeRule(ConditionRules)
SpecConditions == Init /\ [][NextConditions]_vars

\* rules with and without a marker in their name, added, merged and unmerged
DirectionRules == {1, 2, 3, 9}
NextDirection ==
    \/ CallAddRuleToPolicy(DirectionRules)
    \/ CallMergeRules
    \/ CallUnmergeRule(DirectionRules)
SpecDirection == Init /\ [][NextDirection]_vars

\* rules added and added again: two of them share name and URI, two the
\* name only, two the URI only
AddRules == {1, 3, 4, 5, 10}
NextAdd == CallAddRuleToPolicy(AddRules)
SpecAdd == Init /\ [][NextAdd]_vars

\* the engine with the snapshot taken between its steps
SnapshotRules == {1, 2, 3}
NextSnapshot ==
    \/ CallAddRuleToPolicy(SnapshotRules)
    \/ CallDeleteRuleFromPolicy(SnapshotRules)
    \/ CallMergeRules
    \/ CallUnmergeRule(SnapshotRules)
    \/ CallUpdateOldConfig
SpecSnapshot == Init /\ [][NextSnapshot]_vars

\* VirtualServer objects: the fields of the custom resource the code reads
VirtualServerObject(ns, name, addr, tls, traffic, pools) ==
    [Namespace |-> ns, Name |-> name, Host |-> "foo.com",
     VirtualServerAddress |-> addr, TLSProfileName |-> tls,
     HTTPTraffic |-> traffic, Pools |-> pools]
PoolEntry(svc, label) ==
    [Service |-> svc, ServicePort |-> 80, NodeMemberLabel |-> label, Path |-> "/"]

Addr1 == <<"10", ".", "1", ".", "1", ".", "1">>
Addr1Bracketed == <<"[">> \o Addr1 \o <<"]">>
Addr1Dashed == <<"10", "-", "1", "-", "1", "-", "1">>
Addr1Rd2 == Addr1 \o <<"%", "2">>
Addr6 == <<":", ":", "1">>

\* the store after Resources.Init(): no config yet
InitStoreWith(op) ==
    /\ profiles = <<>>
    /\ profArg = NoProfile
    /\ profRet = FALSE
    /\ objDeps = <<>>
    /\ depKey = NoDep
    /\ depNew = <<>>
    /\ added = <<>>
    /\ removed = <<>>
    /\ rsMap = <<>>
    /\ oldRsMap = <<>>
    /\ heap = [r \in RuleIds |-> NewRule(r)]
    /\ mergedRulesMap = <<>>
    /\ panicked = FALSE
    /\ lastOp = op
    /\ preMerge = <<>>
    /\ SSLContext = <<>>
    /\ irulesMap = <<>>
    /\ intDgMap = <<>>
    /\ svcFwdRulesMap = {}
    /\ customProfiles = <<>>
    /\ tlsIndexer = <<>>
    /\ secrets = <<>>
    /\ pc = [w \in Workers |-> "idle"]
    /\ mutex = 0
    /\ local = [w \in Workers |-> NoLocal]
InitStore == InitStoreWith(NoOp)

\* configs built from VirtualServers whose addresses give equal and
\* different names, with and without a TLSProfile
StoreObjects ==
    {VirtualServerObject("ns1", "vs-a", Addr1, "", "", <<PoolEntry(<<"svc1">>, <<>>)>>),
     VirtualServerObject("ns2", "vs-b", Addr1Bracketed, "tls1", "",
                         <<PoolEntry(<<"svc", "-", "2">>, <<"lbl">>)>>),
     VirtualServerObject("ns1", "vs-c", <<>>, "", "", <<>>),
     VirtualServerObject("ns1", "vs-d", Addr1Dashed, "", "",
                         <<PoolEntry(<<"svc1">>, <<>>), PoolEntry(<<"svc", "-", "2">>, <<>>)>>),
     VirtualServerObject("ns1", "vs-e", Addr1Rd2, "tls1", "", <<>>),
     VirtualServerObject("ns2", "vs-f", Addr6, "", "", <<>>)}
NextStore == CallCreateRSConfigFromVirtualServer(StoreObjects)
SpecStore == InitStore /\ [][NextStore]_vars

\* TLSProfile and Secret objects: the fields the code reads
TLSProfileObject(reference, clientSSL, serverSSL) ==
    [Reference |-> reference, ClientSSL |-> clientSSL, ServerSSL |-> serverSSL]
SecretObject(ns, name, data) == [Namespace |-> ns, Name |-> name, Data |-> data]

\* a VirtualServer of ns1 with TLSProfile tls1 and a traffic policy
TLSVirtualServer(traffic) ==
    VirtualServerObject("ns1", "vs-a", Addr1, "tls1", traffic, <<>>)
\* one with pools
PooledVirtualServer(traffic) ==
    VirtualServerObject("ns1", "vs-a", Addr1, "tls1", traffic,
                        <<PoolEntry(<<"svc1">>, <<>>), PoolEntry(<<"svc", "-", "2">>, <<>>)>>)
\* one without a TLSProfile, and ones of a namespace without an informer
PlainVirtualServer == VirtualServerObject("ns1", "vs-c", <<>>, "", "redirect", <<>>)
StrayVirtualServer(traffic) ==
    VirtualServerObject("ns2", "vs-e", Addr1Rd2, "tls1", traffic, <<>>)
TLSKeys == {"ns1/tls1"}
GoodSecret == SecretObject("ns1", "clientssl", "cert")
BadSecret == SecretObject("ns1", "clientssl", "")

\* the passes over the virtuals of VirtualServers with every traffic policy,
\* with TLSProfiles that refer to the BIG-IP, to a secret and to neither
TLSObjects ==
    {TLSVirtualServer(""), TLSVirtualServer("allow"), TLSVirtualServer("none"),
     TLSVirtualServer("redirect"), PlainVirtualServer, StrayVirtualServer("")}
TLSProfiles ==
    {TLSProfileObject("secret", <<"clientssl">>, <<>>),
     TLSProfileObject("hybrid", <<"clientssl">>, <<>>)}
NextTLS ==
    \/ CallCreateRSConfigFromVirtualServer(TLSObjects)
    \/ CallHandleVirtualServerTLS(TLSObjects)
    \/ UpdateTLSProfile(TLSKeys, TLSProfiles)
    \/ DeleteTLSProfile
    \/ UpdateSecret({GoodSecret})
SpecTLS == InitStore /\ [][NextTLS]_vars

\* the passes over the HTTPS virtual with the TLSProfiles that refer to the
\* BIG-IP, for the names a TLSProfile may declare
ClientSSLNames ==
    {<<>>, <<"clientssl">>, <<"/", "Common", "/", "clientssl">>, <<"a", "/", "b", "/", "c">>}
ServerSSLNames == {<<>>, <<"serverssl">>, <<"clientssl">>}
BigipProfiles ==
    {TLSProfileObject("bigip", c, x) : c \in ClientSSLNames, x \in ServerSSLNames}
NextBigip ==
    \/ CallCreateRSConfigFromVirtualServer({TLSVirtualServer("")})
    \/ CallHandleVirtualServerTLS({TLSVirtualServer("")})
    \/ UpdateTLSProfile(TLSKeys, BigipProfiles)
SpecBigip == InitStore /\ [][NextBigip]_vars

\* the passes over the HTTPS virtual with a TLSProfile that refers to a
\* secret, while the secret comes, changes and goes
NextSecret ==
    \/ CallCreateRSConfigFromVirtualServer({TLSVirtualServer("")})
    \/ CallHandleVirtualServerTLS({TLSVirtualServer("")})
    \/ UpdateTLSProfile(TLSKeys, {TLSProfileObject("secret", <<"clientssl">>, <<>>)})
    \/ DeleteTLSProfile
    \/ UpdateSecret({GoodSecret, BadSecret})
    \/ DeleteSecret
SpecSecret == InitStore /\ [][NextSecret]_vars

\* the passes over the plaintext virtuals of VirtualServers that redirect,
\* while the data group is filled
RedirectObjects ==
    {PooledVirtualServer("redirect"), PooledVirtualServer("allow"),
     StrayVirtualServer("redirect")}
NextRedirect ==
    \/ CallCreateRSConfigFromVirtualServer(RedirectObjects)
    \/ CallHandleVirtualServerTLS(RedirectObjects)
    \/ WriteDataGroup({"ns1", "ns2"})
SpecRedirect == InitStore /\ [][NextRedirect]_vars

(***************************************************************************)
(* Concurrent reconciliation passes over the store.  Resources embeds a    *)
(* sync.Mutex (line 44); none of its methods takes it, the caller of a     *)
(* store method does, around the whole read-modify-write.                  *)
(***************************************************************************)
\* a delete that empties the store
deleteVirtualServerAll(rsm, rsName) == <<>>
\* rs.deleteVirtualServer(rsName)
deleteVirtualServer(rsm, rsName) == MapDelete(rsm, rsName)

\* a mutex that never makes a goroutine wait
mutexAlwaysFree(m) == TRUE
\* sync.Mutex: Lock returns once no goroutine holds the mutex
mutexFree(m) == m = 0

\* what a step of a pass leaves alone besides the store
passFrame == <<mergedRulesMap, panicked, preMerge, profVars, tlsVars, local>>

\* crMgr.resources.Lock() by the pass of worker w
Lock(w) ==
    /\ pc[w] = "idle"
    /\ mutexFree(mutex)
    /\ mutex' = w
    /\ pc' = [pc EXCEPT ![w] = "locked"]
    /\ lastOp' = [op |-> "Lock", arg |-> w, ret |-> FALSE]
    /\ UNCHANGED <<rsMap, oldRsMap, heap, depVars, passFrame>>

\* crMgr.resources.Unlock(): a sync.Mutex is not owned, Unlock frees it
Unlock(w) ==
    /\ pc[w] = "locked"
    /\ mutex' = 0
    /\ pc' = [pc EXCEPT ![w] = "idle"]
    /\ lastOp' = [op |-> "Unlock", arg |-> w, ret |-> FALSE]
    /\ UNCHANGED <<rsMap, oldRsMap, heap, depVars, passFrame>>

\* the pass of worker w stores a config, or records dependencies
PassCreate(w, objects) ==
    pc[w] = "locked" /\ CallCreateRSConfigFromVirtualServer(objects)
PassUpdateDependencies(w, keys, depsSet) ==
    /\ pc[w] = "locked"
    /\ UpdateDependenciesStep(keys, depsSet)
    /\ lastOp' = [op |-> "UpdateDependencies", arg |-> depKey'.Name, ret |-> FALSE]
    /\ UNCHANGED <<profVars, storeVars, tlsVars, passVars>>

\* the pass of worker w deletes the config of a virtual
PassDeleteVirtualServer(w, names) ==
    \E rsName \in names :
        /\ pc[w] = "locked"
        /\ rsMap' = deleteVirtualServer(rsMap, rsName)
        /\ heap' = Collect(heap, Reachable(rsMap', oldRsMap, mergedRulesMap))
        /\ lastOp' = [op |-> "deleteVirtualServer", arg |-> rsName, ret |-> FALSE]
        /\ UNCHANGED <<oldRsMap, depVars, passFrame, pc, mutex>>

\* rs.updateOldConfig() statement by statement: line 1198 empties the
\* snapshot, the loop of lines 1199-1202 copies one config per iteration, in
\* the order `range` visits the store, and ends when it has visited every key
UpdateOldConfigMake(w) ==
    /\ pc[w] = "locked"
    /\ oldRsMap' = <<>>
    /\ heap' = Collect(heap, Reachable(rsMap, oldRsMap', mergedRulesMap))
    /\ pc' = [pc EXCEPT ![w] = "copying"]
    /\ lastOp' = [op |-> "updateOldConfig", arg |-> "make", ret |-> FALSE]
    /\ UNCHANGED <<rsMap, depVars, passFrame, mutex>>
UpdateOldConfigCopy(w) ==
    /\ pc[w] = "copying"
    /\ \E k \in DOMAIN rsMap \ DOMAIN oldRsMap :
          /\ oldRsMap' = MapPut(oldRsMap, k, copyConfig(rsMap[k]))
          /\ lastOp' = [op |-> "updateOldConfig", arg |-> k, ret |-> FALSE]
    /\ UNCHANGED <<rsMap, heap, depVars, passFrame, pc, mutex>>
UpdateOldConfigDone(w) ==
    /\ pc[w] = "copying"
    /\ DOMAIN rsMap \ DOMAIN oldRsMap = {}
    /\ pc' = [pc EXCEPT ![w] = "locked"]
    /\ lastOp' = [op |-> "updateOldConfig", arg |-> "", ret |-> FALSE]
    /\ UNCHANGED <<rsMap, oldRsMap, heap, depVars, passFrame, mutex>>

\* two passes over two VirtualServers of one namespace
FirstVirtualServer == VirtualServerObject("ns1", "vs-a", Addr1, "", "", <<>>)
SecondVirtualServer == VirtualServerObject("ns1", "vs-b", Addr1Rd2, "", "", <<>>)
LockedObjects == {FirstVirtualServer, SecondVirtualServer}
LockedNames == {formatVirtualServerName(o.VirtualServerAddress, 80) : o \in LockedObjects}
LockedDeps == UNION {[S -> {1}] : S \in SUBSET {R1}}
\* the key under which the dependencies of the first VirtualServer are recorded
LockedOwner ==
    [Kind |-> VirtualServer, Namespace |-> FirstVirtualServer.Namespace,
     Name |-> FirstVirtualServer.Name, Service |-> ""]
NextLocked ==
    \E w \in Workers :
        \/ Lock(w)
        \/ Unlock(w)
        \/ PassCreate(w, LockedObjects)
        \/ PassDeleteVirtualServer(w, LockedNames)
        \/ PassUpdateDependencies(w, {LockedOwner}, LockedDeps)
        \/ UpdateOldConfigMake(w)
        \/ UpdateOldConfigCopy(w)
        \/ UpdateOldConfigDone(w)
SpecLocked == InitStore /\ [][NextLocked]_vars

(***************************************************************************)
(* The Secret branch of handleVirtualServerTLS (lines 451-491) statement   *)
(* by statement, for two passes that run side by side.  SSLContext is a Go *)
(* map that no mutex guards: an access that overlaps the assignment of     *)
(* line 476 by another goroutine is a data race, which the runtime either  *)
(* lets through or ends with a fatal error (concurrent map read and map    *)
(* write, concurrent map writes).                                          *)
(***************************************************************************)
\* the VirtualServer whose HTTPS virtual the pass of worker w handles
RaceVirtualServer(w) ==
    IF w = 1 THEN VirtualServerObject("ns1", "vs-a", Addr1, "tls1", "", <<>>)
    ELSE VirtualServerObject("ns1", "vs-e", Addr1Rd2, "tls1", "", <<>>)
RaceName(w) ==
    formatVirtualServerName(RaceVirtualServer(w).VirtualServerAddress, DEFAULT_HTTPS_PORT)
RaceKey(w) == RaceVirtualServer(w).Namespace \o "/" \o RaceVirtualServer(w).TLSProfileName
RaceClientSSL(w) == Join(tlsIndexer[RaceKey(w)].ClientSSL)

\* another goroutine is inside the assignment of line 476
midAssign(w) == \E v \in Workers \ {w} : pc[v] = "assigning"

raceFrame == <<oldRsMap, heap, mergedRulesMap, preMerge, profVars, depVars,
               irulesMap, intDgMap, svcFwdRulesMap, tlsIndexer, secrets, mutex>>

\* lines 385-455: the pass reaches the Secret case and looks the secret up
\* in SSLContext
SecretLookup(w) ==
    /\ ~panicked
    /\ pc[w] = "idle"
    /\ RaceName(w) \in DOMAIN rsMap
    /\ RaceKey(w) \in DOMAIN tlsIndexer
    /\ tlsIndexer[RaceKey(w)].Reference = "secret"
    /\ lastOp' = [op |-> "SecretLookup", arg |-> w, ret |-> FALSE]
    /\ \/ /\ RaceClientSSL(w) \in DOMAIN SSLContext
          /\ pc' = [pc EXCEPT ![w] = "create"]
          /\ local' = [local EXCEPT ![w] = [secret |-> SSLContext[RaceClientSSL(w)],
                                            gets |-> 0, ret |-> FALSE]]
          /\ UNCHANGED panicked
       \/ /\ RaceClientSSL(w) \notin DOMAIN SSLContext
          /\ pc' = [pc EXCEPT ![w] = "get"]
          /\ local' = [local EXCEPT ![w] = NoLocal]
          /\ UNCHANGED panicked
       \/ /\ midAssign(w)
          /\ panicked' = TRUE
          /\ UNCHANGED <<pc, local>>
    /\ UNCHANGED <<rsMap, SSLContext, customProfiles, raceFrame>>

\* lines 469-475: the secret is asked of the cluster
SecretGet(w) ==
    /\ ~panicked
    /\ pc[w] = "get"
    /\ lastOp' = [op |-> "SecretGet", arg |-> w, ret |-> FALSE]
    /\ LET k == <<RaceVirtualServer(w).Namespace, RaceClientSSL(w)>>
       IN  IF k \in DOMAIN secrets
           THEN /\ pc' = [pc EXCEPT ![w] = "assign"]
                /\ local' = [local EXCEPT ![w].secret = secrets[k], ![w].gets = @ + 1]
           ELSE /\ pc' = [pc EXCEPT ![w] = "done"]
                /\ local' = [local EXCEPT ![w].gets = @ + 1]
    /\ UNCHANGED <<rsMap, SSLContext, customProfiles, panicked, raceFrame>>

\* line 476, crMgr.SSLContext[clientSSL] = secret: the assignment begins,
\* and ends with the secret in the map
SecretAssignBegin(w) ==
    /\ ~panicked
    /\ pc[w] = "assign"
    /\ lastOp' = [op |-> "SecretAssign", arg |-> w, ret |-> FALSE]
    /\ \/ /\ pc' = [pc EXCEPT ![w] = "assigning"]
          /\ UNCHANGED panicked
       \/ /\ midAssign(w)
          /\ panicked' = TRUE
          /\ UNCHANGED pc
    /\ UNCHANGED <<rsMap, SSLContext, customProfiles, local, raceFrame>>
SecretAssignEnd(w) ==
    /\ ~panicked
    /\ pc[w] = "assigning"
    /\ lastOp' = [op |-> "SecretAssign", arg |-> w, ret |-> TRUE]
    /\ SSLContext' = MapPut(SSLContext, RaceClientSSL(w), local[w].secret)
    /\ pc' = [pc EXCEPT ![w] = "create"]
    /\ UNCHANGED <<rsMap, customProfiles, panicked, local, raceFrame>>

\* lines 458-463 and 477-482: the custom profile of the secret
SecretCreateProfile(w) ==
    /\ ~panicked
    /\ pc[w] = "create"
    /\ lastOp' = [op |-> "createSecretSslProfile", arg |-> w, ret |-> FALSE]
    /\ LET c == createSecretSslProfile(rsMap[RaceName(w)], local[w].secret, customProfiles)
       IN  /\ customProfiles' = c.customProfiles
           /\ pc' = [pc EXCEPT ![w] = IF c.err THEN "done" ELSE "attach"]
    /\ UNCHANGED <<rsMap, SSLContext, panicked, local, raceFrame>>

\* lines 484-491: the profile reference is attached and the pass says true
SecretAttach(w) ==
    /\ ~panicked
    /\ pc[w] = "attach"
    /\ lastOp' = [op |-> "AddOrUpdateProfile", arg |-> w, ret |-> TRUE]
    /\ LET n == RaceName(w)
           profRef == [Partition |-> rsMap[n].Virtual.Partition,
                       Name |-> RaceClientSSL(w), Context |-> "clientside",
                       Namespace |-> RaceVirtualServer(w).Namespace]
       IN  rsMap' = [rsMap EXCEPT ![n].Virtual.Profiles =
                                      AddOrUpdateProfile(@, profRef).Profiles]
    /\ pc' = [pc EXCEPT ![w] = "done"]
    /\ local' = [local EXCEPT ![w].ret = TRUE]
    /\ UNCHANGED <<SSLContext, customProfiles, panicked, raceFrame>>

\* the pass is over; the worker takes the next one
PassReturn(w) ==
    /\ ~panicked
    /\ pc[w] = "done"
    /\ lastOp' = [op |-> "return", arg |-> w, ret |-> local[w].ret]
    /\ pc' = [pc EXCEPT ![w] = "idle"]
    /\ local' = [local EXCEPT ![w] = NoLocal]
    /\ UNCHANGED <<rsMap, SSLContext, customProfiles, panicked, raceFrame>>

\* no pass is under way
Quiet == \A w \in Workers : pc[w] = "idle"

\* the configs are built and the TLSProfile and the secret written while no
\* pass is under way; then the two passes run side by side
NextRace ==
    \/ Quiet /\ CallCreateRSConfigFromVirtualServer({RaceVirtualServer(w) : w \in Workers})
    \/ Quiet /\ UpdateTLSProfile(TLSKeys, {TLSProfileObject("secret", <<"clientssl">>, <<>>)})
    \/ Quiet /\ UpdateSecret({GoodSecret})
    \/ \E w \in Workers :
          \/ SecretLookup(w)
          \/ SecretGet(w)
          \/ SecretAssignBegin(w)
          \/ SecretAssignEnd(w)
          \/ SecretCreateProfile(w)
          \/ SecretAttach(w)
          \/ PassReturn(w)
SpecRace == InitStore /\ [][NextRace]_vars

(***************************************************************************)
(* Data-group flattening (lines 1219-1378).  A DataGroupNamespaceMap is a  *)
(* function from namespace to *InternalDataGroup; the pointer is the       *)
(* namespace that holds it.  The data of a record is a sequence of pieces, *)
(* "|" a piece of its own.                                                 *)
(***************************************************************************)
PassthroughHostsDgName == "ssl_passthrough_servername_dg"
ReencryptHostsDgName == "ssl_reencrypt_servername_dg"
EdgeHostsDgName == "ssl_edge_servername_dg"
ReencryptServerSslDgName == "ssl_reencrypt_serverssl_dg"
EdgeServerSslDgName == "ssl_edge_serverssl_dg"
AbDeploymentDgName == "ab_deployment_dg"

InternalDataGroup(name, partition, records) ==
    [Name |-> name, Partition |-> partition, Records |-> records]
NilDataGroup == InternalDataGroup("", "", <<>>)

\* a handler that takes the later value
flattenConflictTakesNew(key, oldVal, newVal) == newVal
\* flattenConflictWarn keeps the value found first
flattenConflictWarn(key, oldVal, newVal) == oldVal

\* sort.Strings on a set of tokens, each a sequence of at most one piece
RECURSIVE sortStrings(_)
sortStrings(T) ==
    IF T = {} THEN <<>>
    ELSE LET m == CHOOSE x \in T : \A y \in T : ~StrLess(Join(y), Join(x))
         IN  <<m>> \o sortStrings(T \ {m})

\* the tokens written back with "|" between them
RECURSIVE writeDelimited(_)
writeDelimited(paths) ==
    IF paths = <<>> THEN <<>>
    ELSE IF Len(paths) = 1 THEN paths[1]
    ELSE paths[1] \o <<"|">> \o writeDelimited(Tail(paths))

\* a handler that writes the later value behind the earlier one
flattenConflictAppends(key, oldVal, newVal) == oldVal \o <<"|">> \o newVal
\* flattenConflictConcat: the tokens of both values, each once, sorted
flattenConflictConcat(key, oldVal, newVal) ==
    LET pathMap == Range(Split(oldVal, "|")) \cup Range(Split(newVal, "|"))
    IN  writeDelimited(sortStrings(pathMap))

\* groupFlattenFuncMap, and the handler FlattenNamespaces takes for a name
groupFlattenFuncMap ==
    [n \in {PassthroughHostsDgName, ReencryptHostsDgName, EdgeHostsDgName,
            ReencryptServerSslDgName, EdgeServerSslDgName, HttpsRedirectDgName,
            AbDeploymentDgName} |->
        IF n \in {HttpsRedirectDgName, AbDeploymentDgName} THEN "concat" ELSE "warn"]
conflictFunc(dgName, key, oldVal, newVal) ==
    IF dgName \in DOMAIN groupFlattenFuncMap /\ groupFlattenFuncMap[dgName] = "concat"
    THEN flattenConflictConcat(key, oldVal, newVal)
    ELSE flattenConflictWarn(key, oldVal, newVal)

\* the closure nameKeyFunc and sort.Search over the records
nameKeyFunc(R, name, i) == StrGeq(R[i + 1].Name, name)
RECURSIVE searchRecords(_, _, _, _)
searchRecords(R, name, i, j) ==
    IF i < j
    THEN LET h == (i + j) \div 2
         IN  IF ~nameKeyFunc(R, name, h)
             THEN searchRecords(R, name, h + 1, j)
             ELSE searchRecords(R, name, i, h)
    ELSE i

\* a data group that puts every record at its end
AddOrUpdateRecordAppends(R, name, data) ==
    [Records |-> Append(R, [Name |-> name, Data |-> data]), ret |-> TRUE]
\* idg.AddOrUpdateRecord(name, data): the records and the return value
AddOrUpdateRecord(R, name, data) ==
    LET i == searchRecords(R, name, 0, Len(R))
    IN  IF i < Len(R) /\ R[i + 1].Name = name
        THEN IF R[i + 1].Data # data
             THEN [Records |-> [R EXCEPT ![i + 1].Data = data], ret |-> TRUE]
             ELSE [Records |-> R, ret |-> FALSE]
        ELSE [Records |-> InsertAt(R, i + 1, [Name |-> name, Data |-> data]),
              ret |-> TRUE]

\* lines 1313-1328: the records of one data group folded into flatMap
RECURSIVE flattenRecords(_, _, _, _)
flattenRecords(flatMap, dgName, R, k) ==
    IF k > Len(R) THEN flatMap
    ELSE LET rec == R[k]
         IN  IF rec.Name \in DOMAIN flatMap
             THEN IF flatMap[rec.Name] # rec.Data
                  THEN flattenRecords(
                           [flatMap EXCEPT ![rec.Name] =
                                conflictFunc(dgName, rec.Name, @, rec.Data)],
                           dgName, R, k + 1)
                  ELSE flattenRecords(flatMap, dgName, R, k + 1)
             ELSE flattenRecords(MapPut(flatMap, rec.Name, rec.Data), dgName, R, k + 1)

\* lines 1304-1330: the loop over the namespaces, visited in `order`; acc
\* holds partition, name and flatMap
RECURSIVE flattenLoop(_, _, _, _)
flattenLoop(dgnm, order, k, acc) ==
    IF k > Len(order) THEN acc
    ELSE LET dg == dgnm[order[k]]
         IN  flattenLoop(dgnm, order, k + 1,
                 [partition |-> IF acc.partition = "" THEN dg.Partition ELSE acc.partition,
                  name |-> IF acc.name = "" THEN dg.Name ELSE acc.name,
                  flatMap |-> flattenRecords(acc.flatMap, dg.Name, dg.Records, 1)])

\* lines 1337-1339: the records of the new data group, flatMap visited in
\* `order`
RECURSIVE addRecords(_, _, _, _)
addRecords(R, flatMap, order, k) ==
    IF k > Len(order) THEN R
    ELSE addRecords(AddOrUpdateRecord(R, order[k], flatMap[order[k]]).Records,
                    flatMap, order, k + 1)

\* dgnm.FlattenNamespaces(): the pointer it returns ("nil", the namespace
\* whose data group it is, or "new") and the data group behind it; nsOrder
\* and recOrder are the orders in which `range` visits dgnm and flatMap
FlattenNamespaces(dgnm, nsOrder, recOrder) ==
    IF Cardinality(DOMAIN dgnm) = 0
    THEN [ref |-> "nil", dg |-> NilDataGroup]
    ELSE IF Cardinality(DOMAIN dgnm) = 1
    THEN [ref |-> nsOrder[1], dg |-> dgnm[nsOrder[1]]]
    ELSE LET acc == flattenLoop(dgnm, nsOrder, 1,
                                [partition |-> "", name |-> "", flatMap |-> <<>>])
         IN  [ref |-> "new",
              dg |-> InternalDataGroup(acc.name, acc.partition,
                                       addRecords(<<>>, acc.flatMap, recOrder, 1))]

\* the record names that come out of the loop over the namespaces
flatNames(dgnm) ==
    UNION {{dgnm[ns].Records[i].Name : i \in 1..Len(dgnm[ns].Records)} : ns \in DOMAIN dgnm}

\* the call on the DataGroupNamespaceMap at hand
FlattenInput(dgnm) == [op |-> "dgnm", arg |-> [dgnm |-> dgnm, nsOrder |-> <<>>], ret |-> FALSE]
CallFlattenNamespaces ==
    /\ lastOp.op = "dgnm"
    /\ LET dgnm == lastOp.arg.dgnm
       IN  \E nsOrder \in Orders(DOMAIN dgnm),
              recOrder \in Orders(IF Cardinality(DOMAIN dgnm) < 2 THEN {}
                                  ELSE flatNames(dgnm)) :
               lastOp' = [op |-> "FlattenNamespaces",
                          arg |-> [dgnm |-> dgnm, nsOrder |-> nsOrder],
                          ret |-> FlattenNamespaces(dgnm, nsOrder, recOrder)]
    /\ UNCHANGED <<storeVars, profVars, depVars, tlsVars, passVars>>

\* data groups of up to three namespaces under one name: a server-name
\* routing group, the redirect group, the AB-deployment group, or a name
\* without a handler
FlattenDgNames == {EdgeHostsDgName, HttpsRedirectDgName, AbDeploymentDgName, "other_dg"}
FlattenData == {<<"a">>, <<"b", "|", "a">>, <<"c">>}
FlattenRecordSets(ns) ==
    {<<>>} \cup {<<[Name |-> "foo.com", Data |-> d]>> : d \in FlattenData}
          \cup IF ns = "ns3" THEN {}
               ELSE {<<[Name |-> "bar.com", Data |-> d]>> : d \in FlattenData} \cup
                    {<<[Name |-> "bar.com", Data |-> d], [Name |-> "foo.com", Data |-> e]>> :
                        d \in FlattenData, e \in FlattenData}
FlattenMaps ==
    UNION {UNION {{m \in [S -> {InternalDataGroup(n, crMgrPartition, R) :
                                   R \in FlattenRecordSets("ns1")}] :
                      \A ns \in S : m[ns].Records \in FlattenRecordSets(ns)} :
                   S \in SUBSET {"ns1", "ns2", "ns3"}} : n \in FlattenDgNames}
InitFlatten == \E dgnm \in FlattenMaps : InitStoreWith(FlattenInput(dgnm))
NextFlatten == CallFlattenNamespaces
SpecFlatten == InitFlatten /\ [][NextFlatten]_vars

(***************************************************************************)
(* The address of a stored virtual set again and again                     *)
(***************************************************************************)
\* rsCfg.Virtual.SetVirtualAddress(bindAddr, port) on a stored config
CallSetVirtualAddress(addresses, ports) ==
    \E n \in DOMAIN rsMap, bindAddr \in addresses, port \in ports :
        /\ ~panicked
        /\ rsMap' = [rsMap EXCEPT ![n].Virtual = SetVirtualAddress(@, bindAddr, port)]
        /\ lastOp' = [op |-> "SetVirtualAddress",
                      arg |-> [name |-> n, bindAddr |-> bindAddr, port |-> port],
                      ret |-> FALSE]
        /\ UNCHANGED <<oldRsMap, heap, mergedRulesMap, panicked, preMerge,
                       profVars, depVars, tlsVars, passVars>>

\* addresses with the ip, the route domain and the family they stand for
AddressCase(addr, ip, rd, family) == [addr |-> addr, ip |-> ip, rd |-> rd, family |-> family]
AddressCases ==
    {AddressCase(<<>>, "", "", "none"),
     AddressCase(Addr1, "10.1.1.1", "", "IPv4"),
     AddressCase(Addr1Rd2, "10.1.1.1", "%2", "IPv4"),
     AddressCase(Addr1 \o <<"%", "10">>, "10.1.1.1", "%10", "IPv4"),
     AddressCase(Addr6, "::1", "", "IPv6"),
     AddressCase(Addr6 \o <<"%", "2">>, "::1", "%2", "IPv6"),
     AddressCase(Addr1Dashed, "", "", "none"),
     AddressCase(Addr1Bracketed, "", "", "none"),
     AddressCase(Addr1 \o <<"%">>, "", "", "none"),
     AddressCase(Addr1 \o <<"%", "a">>, "", "", "none"),
     AddressCase(Addr1 \o <<"%", "2", "%", "2">>, "", "", "none"),
     AddressCase(<<"%", "2">>, "", "", "none")}
AddressPorts == {0, 80, 443}
NextAddress ==
    \/ CallCreateRSConfigFromVirtualServer(LockedObjects)
    \/ CallSetVirtualAddress({c.addr : c \in AddressCases}, AddressPorts)
SpecAddress == InitStore /\ [][NextAddress]_vars

(***************************************************************************)
(* The naming functions applied to names, addresses and labels             *)
(***************************************************************************)
MaxPieces == 4
SeqsUpTo(S, n) == UNION {[1..k -> S] : k \in 0..n}

NameInput(kind, arg) == [op |-> kind, arg |-> arg, ret |-> FALSE]
CallSplitIpWithRouteDomain ==
    /\ lastOp.op = "address"
    /\ lastOp' = [op |-> "split_ip_with_route_domain", arg |-> lastOp.arg,
                  ret |-> split_ip_with_route_domain(lastOp.arg)]
    /\ UNCHANGED <<storeVars, profVars, depVars, tlsVars, passVars>>
CallAS3NameFormatter ==
    /\ lastOp.op = "name"
    /\ lastOp' = [op |-> "AS3NameFormatter", arg |-> lastOp.arg,
                  ret |-> AS3NameFormatter(lastOp.arg)]
    /\ UNCHANGED <<storeVars, profVars, depVars, tlsVars, passVars>>
CallFormatVirtualServerPoolName ==
    /\ lastOp.op = "pool"
    /\ lastOp' = [op |-> "formatVirtualServerPoolName", arg |-> lastOp.arg,
                  ret |-> formatVirtualServerPoolName(lastOp.arg.namespace, lastOp.arg.svc,
                                                      lastOp.arg.nodeMemberLabel)]
    /\ UNCHANGED <<storeVars, profVars, depVars, tlsVars, passVars>>

\* the inputs: addresses of digits, "%", "." and a letter; names of the
\* characters the replacer knows and a letter; label selectors
NsSvcPort == <<"ns1", "/", "svc", ":", "8080">>
Addr1Rd20 == Addr1 \o <<"%", "20">>
AddressInputs ==
    SeqsUpTo({"1", "%", "a", "."}, MaxPieces) \cup {c.addr : c \in AddressCases}
        \cup {Addr1Rd20}
FormatterInputs ==
    SeqsUpTo({".", ":", "/", "%", "-", "=", "a"}, MaxPieces) \cup {NsSvcPort, Addr1Rd20}
LabelInputs == SeqsUpTo({"app", "=", "-", "web"}, MaxPieces)
PoolInputs ==
    {[namespace |-> "ns1", svc |-> svc, nodeMemberLabel |-> l] :
        svc \in {<<"svc1">>, <<"svc", "-", "2">>}, l \in LabelInputs}
InitNames ==
    \E in \in {NameInput("address", a) : a \in AddressInputs}
             \cup {NameInput("name", n) : n \in FormatterInputs}
             \cup {NameInput("pool", p) : p \in PoolInputs} :
        InitStoreWith(in)
NextNames ==
    \/ CallSplitIpWithRouteDomain
    \/ CallAS3NameFormatter
    \/ CallFormatVirtualServerPoolName
SpecNames == InitNames /\ [][NextNames]_vars


(***************************************************************************)
(* Properties of the policy engine                                         *)
(***************************************************************************)
\* the rules of the forwarding policy of the config, by pointer and by value
LiveRules == ForwardingRules(rsMap[RsName])
LiveView == PolicyView(LiveRules, heap)

\* the merge records of the config
RecordsOf(mrm) == IF RsName \in DOMAIN mrm THEN mrm[RsName] ELSE <<>>

\* condition lists that are structurally identical, names ignored
SameConditions(a, b) ==
    /\ Len(a.Conditions) = Len(b.Conditions)
    /\ \A k \in 1..Len(a.Conditions) : nameBlindEqual(a.Conditions[k], b.Conditions[k])

\* MergeRules found a policy of two rules with identical conditions and no
\* merge record, and the last call since, an UnmergeRule, returned true and
\* left no record: the merge is fully unmerged
FullyUnmerged ==
    /\ ~panicked
    /\ lastOp.op = "UnmergeRule"
    /\ lastOp.ret
    /\ Len(preMerge) = 2
    /\ SameConditions(preMerge[1], preMerge[2])
    /\ DOMAIN RecordsOf(mergedRulesMap) = {}

C2_SnapshotStable ==
    [][lastOp'.op # "updateOldConfig" =>
           StoreView(oldRsMap', heap') = StoreView(oldRsMap, heap)]_vars

\* the ordinals of the rules are exactly 0..N-1
Contiguous(rules, h) ==
    /\ NilRule \notin Range(rules)
    /\ {h[rules[i]].Ordinal : i \in 1..Len(rules)} = 0..(Len(rules) - 1)

\* C3 as stated, for the operations that take no rule from the caller: from
\* a policy whose ordinals are 0..N-1, after DeleteRuleFromPolicy, MergeRules
\* or UnmergeRule the ordinals of the rules now in the policy are exactly
\* 0..N-1.
C3_Contiguous ==
    [][(/\ ~panicked'
        /\ lastOp'.op \in {"DeleteRuleFromPolicy", "MergeRules", "UnmergeRule"}
        /\ Contiguous(ForwardingRules(rsMap[RsName]), heap))
       => Contiguous(ForwardingRules(rsMap'[RsName]), heap')]_vars

\* C3: RemoveRules alone renumbers.  A DeleteRuleFromPolicy that removes a
\* rule with no merge record from a policy of several leaves every rule the
\* Ordinal of the last position it holds (0..N-1 when no rule object is in
\* the list twice); MergeRules and UnmergeRule (also when reached from
\* DeleteRuleFromPolicy) leave every rule of the policy the Ordinal it had;
\* AddRuleToPolicy gives a replacing rule the Ordinal of the rule it replaces
\* and changes no other Ordinal.
C3_OrdinalsByOperation ==
    [][~panicked' =>
       LET rules == ForwardingRules(rsMap[RsName])
           after == ForwardingRules(rsMap'[RsName])
           kept == \A i \in 1..Len(after) :
                       after[i] # NilRule =>
                           heap'[after[i]].Ordinal = heap[after[i]].Ordinal
       IN  /\ (/\ lastOp'.op = "DeleteRuleFromPolicy"
               /\ ~lastOp'.ret
               /\ Len(after) < Len(rules))
              => \A i \in 1..Len(after) :
                     \/ heap'[after[i]].Ordinal = i - 1
                     \/ \E k \in (i + 1)..Len(after) : after[k] = after[i]
           /\ (lastOp'.op = "DeleteRuleFromPolicy" /\ lastOp'.ret) => kept
           /\ (lastOp'.op \in {"MergeRules", "UnmergeRule"}) => kept
           /\ (lastOp'.op = "AddRuleToPolicy") =>
                  IF Len(after) = Len(rules)
                  THEN \A i \in 1..Len(after) :
                           heap'[after[i]].Ordinal = heap[rules[i]].Ordinal
                  ELSE kept]_vars

\* a rule was removed from a policy of several and the rest renumbered
C3_Witness ==
    /\ ~panicked
    /\ lastOp.op = "DeleteRuleFromPolicy"
    /\ ~lastOp.ret
    /\ Len(LiveRules) >= 2
    /\ \A i \in 1..Len(LiveRules) : heap[LiveRules[i]].Ordinal = i - 1
    /\ \E i \in 1..Len(LiveRules) :
           heap[LiveRules[i]].Ordinal # NewRule(LiveRules[i]).Ordinal

(***************************************************************************)
(* Properties of UpdateDependencies                                        *)
(***************************************************************************)
\* the dependencies recorded for key k in the map deps
RecordedFor(deps, k) == IF k \in DOMAIN deps THEN DOMAIN deps[k] ELSE {}

\* C4: UpdateDependencies(key, newDeps) returns the set difference against
\* what was recorded for key before the call: removed holds exactly the
\* dependencies recorded before and absent from newDeps, added exactly those
\* of newDeps not recorded before, each once; with no previous record added
\* is all of newDeps and removed is empty.
C4_SetDifference ==
    [][LET old == RecordedFor(objDeps, depKey')
           new == DOMAIN depNew'
       IN  /\ Range(removed') = old \ new
           /\ Len(removed') = Cardinality(old \ new)
           /\ Range(added') = new \ old
           /\ Len(added') = Cardinality(new \ old)
           /\ (depKey' \notin DOMAIN objDeps =>
                  Range(added') = new /\ removed' = <<>>)]_vars

C4_Witness ==
    /\ depKey # NoDep
    /\ Len(removed) >= 1
    /\ Len(added) >= 1
    /\ Cardinality(DOMAIN depNew) > Len(added)

\* C5: in the removed list every dependency of kind "Rule" comes before
\* every removed dependency of another kind, for every iteration order of
\* the previously recorded dependencies.
C5_RulesFirst ==
    \A i \in 1..Len(removed) : \A j \in 1..Len(removed) :
        (removed[i].Kind # RuleDep /\ removed[j].Kind = RuleDep) => j < i

C5_Witness ==
    /\ Len(removed) = 4
    /\ removed[2].Kind = RuleDep
    /\ removed[3].Kind # RuleDep

\* C6: replace-on-write: after a call the dependencies recorded for key are
\* exactly newDeps, the records of every other owner are unchanged, and a call
\* whose newDeps equal what is recorded for key returns two empty lists.
C6_ReplaceOnWrite ==
    /\ [](depKey # NoDep => (depKey \in DOMAIN objDeps /\ objDeps[depKey] = depNew))
    /\ [][/\ DOMAIN objDeps' = DOMAIN objDeps \cup {depKey'}
          /\ \A k \in DOMAIN objDeps : k # depKey' => objDeps'[k] = objDeps[k]
          /\ ((depKey' \in DOMAIN objDeps /\ objDeps[depKey'] = depNew') =>
                 (added' = <<>> /\ removed' = <<>>))]_vars

C6_Witness ==
    /\ depKey # NoDep
    /\ Cardinality(DOMAIN depNew) >= 2
    /\ added = <<>>
    /\ removed = <<>>
    /\ Cardinality(DOMAIN objDeps) = 2

(***************************************************************************)
(* Properties of AddOrUpdateProfile                                        *)
(***************************************************************************)
\* C7: after any sequence of AddOrUpdateProfile calls from an empty list,
\* Profiles is sorted by (Partition, Name) and no two entries share a
\* (Partition, Name).
C7_SortedNoDuplicates ==
    /\ \A i \in 1..Len(profiles) - 1 :
           ~ProfileLess(profiles[i + 1], profiles[i])
    /\ \A i \in 1..Len(profiles) : \A j \in 1..Len(profiles) :
           (i # j) => ~(/\ profiles[i].Partition = profiles[j].Partition
                        /\ profiles[i].Name = profiles[j].Name)

C7_Witness ==
    /\ Len(profiles) >= 3
    /\ profRet = TRUE
    /\ profArg = profiles[2]

\* the positions of P that hold prof's (Partition, Name)
SameKeyAt(P, prof) ==
    {i \in 1..Len(P) : P[i].Partition = prof.Partition /\ P[i].Name = prof.Name}

\* C8: the three outcomes of AddOrUpdateProfile(p): same key and Context:
\* returns false, list unchanged; same key, other Context: overwritten in
\* place, same length, returns true; absent: inserted, length grows by one,
\* the earlier entries keep their relative order, returns true.  A second
\* call in a row with the same profile returns false.
C8_ThreeOutcomes ==
    [][LET p == profArg'
           at == SameKeyAt(profiles, p)
       IN  /\ (\E i \in at : profiles[i].Context = p.Context) =>
                  (profRet' = FALSE /\ profiles' = profiles)
           /\ (at # {} /\ \A i \in at : profiles[i].Context # p.Context) =>
                  /\ profRet' = TRUE
                  /\ Len(profiles') = Len(profiles)
                  /\ \E i \in at : profiles' = [profiles EXCEPT ![i] = p]
           /\ (at = {}) =>
                  /\ profRet' = TRUE
                  /\ Len(profiles') = Len(profiles) + 1
                  /\ \E i \in 1..Len(profiles') :
                         profiles'[i] = p /\ RemoveAt(profiles', i) = profiles
           /\ (profArg = p) => (profRet' = FALSE)]_vars

C8_Witness ==
    /\ profArg # NoProfile
    /\ profRet = FALSE
    /\ Len(profiles) >= 2
    /\ \E i \in 1..Len(profiles) :
           /\ profiles[i].Partition = profArg.Partition
           /\ profiles[i].Name = profArg.Name
           /\ profiles[i].Namespace # profArg.Namespace

(***************************************************************************)
(* Properties of MergeRules                                                *)
(***************************************************************************)
\* C9 as stated: when MergeRules folds mergee M into merger R, every action
\* of M with no name-blind equal on R is appended to R's action list, and the
\* record stored for R lists under M exactly the actions appended from M, all
\* of them.  Stated for a policy of two rules and no earlier record.
C9_RecordsAppended ==
    [][(/\ ~panicked'
        /\ lastOp'.op = "MergeRules"
        /\ DOMAIN RecordsOf(mergedRulesMap) = {}
        /\ Len(ForwardingRules(rsMap[RsName])) = 2
        /\ Len(ForwardingRules(rsMap'[RsName])) = 1)
       => LET R == ForwardingRules(rsMap'[RsName])[1]
              M == CHOOSE m \in Range(ForwardingRules(rsMap[RsName])) : m # R
              appended == SubSeq(heap'[R].Actions, Len(heap[R].Actions) + 1,
                                 Len(heap'[R].Actions))
              unique == SelectSeq(heap[M].Actions,
                           LAMBDA a : \A l \in 1..Len(heap[R].Actions) :
                               ~nameBlindEqual(ActionObj(a), ActionObj(heap[R].Actions[l])))
              records == RecordsOf(mergedRulesMap')
          IN  /\ appended = unique
              /\ (appended # <<>>) =>
                     /\ heap[R].Name \in DOMAIN records
                     /\ heap[M].Name \in DOMAIN records[heap[R].Name].MergedActions
                     /\ records[heap[R].Name].MergedActions[heap[M].Name] = appended]_vars

\* every condition of ci has its own name-blind equal in cj
OneToOne(ci, cj) ==
    /\ Len(ci) = Len(cj)
    /\ \E p \in Permutations(1..Len(ci)) :
           \A k \in 1..Len(ci) : nameBlindEqual(ci[k], cj[p[k]])

\* C10 as stated: MergeRules merges two rules only if they have the same
\* number of conditions and every condition of one has a structurally
\* identical counterpart in the other: a rule that a MergeRules call takes
\* out of the policy has such a partner among the rules of the policy.
C10_MergedOnlyIfMatching ==
    [][(~panicked' /\ lastOp'.op = "MergeRules")
       => LET rules == ForwardingRules(rsMap[RsName])
              after == ForwardingRules(rsMap'[RsName])
          IN  \A i \in 1..Len(rules) :
                  rules[i] \notin Range(after) =>
                      \E j \in 1..Len(rules) \ {i} :
                          OneToOne(heap[rules[i]].Conditions,
                                   heap[rules[j]].Conditions)]_vars

\* the positions MergeRules takes out of the list: a rule with a marker in
\* its name goes when it matches a later rule, or an earlier rule without a
\* marker; "-reset" rules take no part
FoldedPositions(rules, h) ==
    LET pair(i, j) == /\ ~HasSuffixReset(h[rules[i]].Name)
                      /\ ~HasSuffixReset(h[rules[j]].Name)
                      /\ conditionsMatch(h[rules[i]].Conditions, h[rules[j]].Conditions)
    IN  {i \in 1..Len(rules) :
            /\ HasMarker(h[rules[i]].Name)
            /\ \/ \E j \in (i + 1)..Len(rules) : pair(i, j)
               \/ \E k \in 1..(i - 1) : pair(k, i) /\ ~HasMarker(h[rules[k]].Name)}

\* C11: for a matching pair (i, j), i before j: if i's name carries a marker
\* i is folded into j; otherwise if j's name does, j is folded into i; if
\* neither does both stay and no merge record is written.  After MergeRules
\* the policy holds the rules at the positions not folded, in their order,
\* and when no position is folded the merge records are as they were.
C11_MergeDirection ==
    [][(~panicked' /\ lastOp'.op = "MergeRules")
       => LET rules == ForwardingRules(rsMap[RsName])
              gone == FoldedPositions(rules, heap)
          IN  /\ ForwardingRules(rsMap'[RsName]) = removeMerged(rules, gone)
              /\ (gone = {}) => (mergedRulesMap' = mergedRulesMap)]_vars

\* MergeRules has left two matching rules without a marker side by side, and
\* has folded the rule with a marker that came after them
C11_Witness ==
    /\ ~panicked
    /\ lastOp.op = "MergeRules"
    /\ Len(preMerge) = 3
    /\ Len(LiveRules) = 2
    /\ ~HasMarker(preMerge[1].Name)
    /\ ~HasMarker(preMerge[2].Name)
    /\ HasMarker(preMerge[3].Name)
    /\ SameConditions(preMerge[1], preMerge[2])

(***************************************************************************)
(* Properties of UnmergeRule                                               *)
(***************************************************************************)
\* the names of the rules in a list
NamesOf(rules, h) == {h[rules[i]].Name : i \in {k \in 1..Len(rules) : rules[k] # NilRule}}

\* the record of the rule named in the call that the step made, before it
CalledEntry == EntryOf(mergedRulesMap, RsName, lastOp'.arg)
CalledHasEntry == lastOp'.arg \in DOMAIN RecordsOf(mergedRulesMap)

\* C12 as stated: UnmergeRule(R) for a merger R completes; after it R is not
\* in the forwarding policy and has no merge record, and every rule that had
\* been folded into R is in the policy as its saved original (the same
\* object, its fields as they were) unless the re-run merge pass folded it
\* again and it has a merge record.
C12_UnmergeMerger ==
    [][(/\ lastOp'.op = "UnmergeRule"
        /\ CalledHasEntry
        /\ DOMAIN CalledEntry.MergedActions # {})
       => LET after == ForwardingRules(rsMap'[RsName])
              records == RecordsOf(mergedRulesMap')
          IN  /\ ~panicked'
              /\ lastOp'.arg \notin NamesOf(after, heap')
              /\ lastOp'.arg \notin DOMAIN records
              /\ \A m \in Range(CalledEntry.OtherRuleNames) :
                     \/ m \in DOMAIN records
                     \/ \E i \in 1..Len(after) :
                            /\ after[i] # NilRule
                            /\ after[i] = EntryOf(mergedRulesMap, RsName, m).OriginalRule
                            /\ heap'[after[i]] = heap[after[i]]
                            /\ heap'[after[i]].Name = m]_vars

\* the sequence without the elements in the set
Without(seq, set) == SelectSeq(seq, LAMBDA a : a \notin set)

\* C13 as stated: UnmergeRule(M) for a mergee M of merger R, the config having
\* a forwarding policy: after the call M is not in the other-names list of R's
\* record, R's rule holds none of the actions recorded for M and all its other
\* actions, the record of M is deleted, R's rule is out of the policy if its
\* action list became empty, and the policy and its reference on the virtual
\* are removed if no rule is left.
C13_UnmergeMergee ==
    [][(/\ lastOp'.op = "UnmergeRule"
        /\ CalledHasEntry
        /\ DOMAIN CalledEntry.MergedActions = {}
        /\ FindPolicy(rsMap[RsName], "forwarding") # 0)
       => LET M == lastOp'.arg
              R == CalledEntry.OtherRuleNames[1]
              rules == ForwardingRules(rsMap[RsName])
              after == ForwardingRules(rsMap'[RsName])
              records == RecordsOf(mergedRulesMap')
              entryR == EntryOf(mergedRulesMap, RsName, R)
              moved == IF M \in DOMAIN entryR.MergedActions
                       THEN Range(entryR.MergedActions[M]) ELSE {}
              at == {i \in 1..Len(rules) : heap[rules[i]].Name = R}
          IN  /\ ~panicked'
              /\ M \notin DOMAIN records
              /\ (R \in DOMAIN records) => (M \notin Range(records[R].OtherRuleNames))
              /\ \A i \in at :
                     LET left == Without(heap[rules[i]].Actions, moved)
                     IN  IF left = <<>>
                         THEN rules[i] \notin Range(after)
                         ELSE rules[i] \in Range(after) /\ heap'[rules[i]].Actions = left
              /\ (after = <<>>) =>
                     /\ FindPolicy(rsMap'[RsName], "forwarding") = 0
                     /\ rsMap'[RsName].Virtual.Policies = <<>>]_vars

(***************************************************************************)
(* The store of configs                                                    *)
(***************************************************************************)
\* the config under a name with its rules by value
StoredView(rsm, h, n) == [cfg |-> rsm[n], rules |-> ConfigView(rsm[n], h)]

\* C14: the store is last-write-wins by virtual name: a call of
\* createRSConfigFromVirtualServer leaves under the name it computes from the
\* address and the port the config it built from its VirtualServer, whatever
\* was stored there and whichever object it came from, it adds no other name,
\* and the entries under the other names are as they were.
C14_LastWriteWins ==
    [][(lastOp'.op = "createRSConfigFromVirtualServer")
       => LET vs == lastOp'.arg.vs
              port == lastOp'.arg.pStruct.port
              name == formatVirtualServerName(vs.VirtualServerAddress, port)
          IN  /\ DOMAIN rsMap' = DOMAIN rsMap \cup {name}
              /\ rsMap'[name] = lastOp'.ret
              /\ rsMap'[name].Virtual.Name = name
              /\ rsMap'[name].MetaData.rscName = vs.Name
              /\ rsMap'[name].Virtual.VirtualAddress =
                     [BindAddr |-> Join(vs.VirtualServerAddress), Port |-> port]
              /\ Len(rsMap'[name].Pools) = Len(vs.Pools)
              /\ \A i \in 1..Len(vs.Pools) :
                     rsMap'[name].Pools[i].ServiceName = Join(vs.Pools[i].Service)
              /\ \A n \in DOMAIN rsMap \ {name} :
                     StoredView(rsMap', heap', n) = StoredView(rsMap, heap, n)]_vars

\* a config built from vs-b of ns2 has replaced the one built from vs-a of ns1
\* or from vs-d under the name they share, next to a config under another name
C14_Witness ==
    /\ lastOp.op = "createRSConfigFromVirtualServer"
    /\ lastOp.arg.vs.Name = "vs-b"
    /\ lastOp.arg.pStruct.port = 80
    /\ LET name == formatVirtualServerName(Addr1, 80)
       IN  /\ name = RsName
           /\ name \in DOMAIN rsMap
           /\ rsMap[name].MetaData.rscName = "vs-b"
           /\ formatVirtualServerName(Addr1Rd2, 443) \in DOMAIN rsMap
           /\ Cardinality(DOMAIN rsMap) >= 3

(***************************************************************************)
(* A config without a forwarding policy                                    *)
(***************************************************************************)
\* C15: a missing forwarding policy is nothing to do: MergeRules, UnmergeRule
\* and DeleteRuleFromPolicy called on a config that has no policy tagged
\* "forwarding" end without a panic and leave the config as it was, also when
\* the merged-rules map still holds a record for the rule handed to
\* UnmergeRule.
C15_MissingPolicyIsNoOp ==
    [][(/\ lastOp'.op \in {"MergeRules", "UnmergeRule", "DeleteRuleFromPolicy"}
        /\ FindPolicy(rsMap[RsName], "forwarding") = 0)
       => (~panicked' /\ rsMap' = rsMap)]_vars

(***************************************************************************)
(* TLS resolution                                                          *)
(***************************************************************************)
\* the step is a pass of handleVirtualServerTLS
IsPass == lastOp'.op = "handleVirtualServerTLS"
PassVS == lastOp'.arg.vs
PassName == lastOp'.arg.name
PassPort == rsMap[PassName].Virtual.VirtualAddress.Port
PassKey == PassVS.Namespace \o "/" \o PassVS.TLSProfileName

\* the pass is over the HTTPS virtual and finds its TLSProfile
FindsTLSProfile ==
    /\ PassVS.TLSProfileName # ""
    /\ PassPort = 443
    /\ PassVS.Namespace \in InformerNamespaces
    /\ PassKey \in DOMAIN tlsIndexer

\* C16: handleVirtualServerTLS returns false and leaves the virtual, the
\* SSLContext cache, the iRule map and the data-group map as they were when
\* no TLSProfileName is declared; when, on the HTTPS pass, the informer of the
\* namespace or the TLSProfile is not found, or the reference is neither
\* "bigip" nor "secret"; and when, on the HTTP pass, the traffic policy is
\* "allow", "none" or not declared.
C16_NothingToDo ==
    [][(/\ IsPass
        /\ \/ PassVS.TLSProfileName = ""
           \/ /\ PassPort = 443
              /\ \/ PassVS.Namespace \notin InformerNamespaces
                 \/ PassKey \notin DOMAIN tlsIndexer
                 \/ tlsIndexer[PassKey].Reference \notin {"bigip", "secret"}
           \/ /\ PassPort # 443
              /\ PassVS.HTTPTraffic \in {"allow", "none", ""})
       => /\ lastOp'.ret = FALSE
          /\ ~panicked'
          /\ rsMap'[PassName].Virtual = rsMap[PassName].Virtual
          /\ SSLContext' = SSLContext
          /\ irulesMap' = irulesMap
          /\ intDgMap' = intDgMap]_vars

\* a pass with traffic policy "none" over a plaintext virtual that an earlier
\* pass gave the redirect iRule, with a secret in the cache
C16_Witness ==
    /\ lastOp.op = "handleVirtualServerTLS"
    /\ lastOp.arg.vs = TLSVirtualServer("none")
    /\ lastOp.arg.name = RsName
    /\ lastOp.ret = FALSE
    /\ lastOp.found.IRules # <<>>
    /\ rsMap[RsName].Virtual.IRules = lastOp.found.IRules
    /\ SSLContext # <<>>
    /\ irulesMap # <<>>
    /\ intDgMap # <<>>

\* a pass over the HTTPS virtual whose TLSProfile refers to neither the
\* BIG-IP nor a secret, after a pass that attached a profile
C16_WitnessKind ==
    /\ lastOp.op = "handleVirtualServerTLS"
    /\ lastOp.ret = FALSE
    /\ lastOp.found.VirtualAddress.Port = 443
    /\ lastOp.found.Profiles # <<>>
    /\ "ns1/tls1" \in DOMAIN tlsIndexer
    /\ tlsIndexer["ns1/tls1"].Reference = "hybrid"

\* the profiles of a context in a list of profiles
OfContext(P, context) == {i \in 1..Len(P) : P[i].Context = context}

\* C17: on the HTTPS pass over a freshly built config, with a TLSProfile found
\* that refers to the BIG-IP, the virtual's Profiles hold a client-side
\* profile exactly when clientSSL is declared and a server-side profile
\* exactly when serverSSL is declared, whatever the two names are, and no
\* other profile.
C17_BigipProfiles ==
    [][(/\ IsPass
        /\ FindsTLSProfile
        /\ tlsIndexer[PassKey].Reference = "bigip"
        /\ rsMap[PassName].Virtual.Profiles = <<>>)
       => LET tls == tlsIndexer[PassKey]
              P == rsMap'[PassName].Virtual.Profiles
              client == IF tls.ClientSSL # <<>> THEN 1 ELSE 0
              server == IF tls.ServerSSL # <<>> THEN 1 ELSE 0
          IN  /\ lastOp'.ret = TRUE
              /\ Cardinality(OfContext(P, "clientside")) = client
              /\ Cardinality(OfContext(P, "serverside")) = server
              /\ Len(P) = client + server]_vars

\* the pass is over the HTTPS virtual and finds a TLSProfile that refers to a
\* secret
SecretPass == IsPass /\ FindsTLSProfile /\ tlsIndexer[PassKey].Reference = "secret"
SecretName == Join(tlsIndexer[PassKey].ClientSSL)
InCache == SecretName \in DOMAIN SSLContext
InCluster == <<PassVS.Namespace, SecretName>> \in DOMAIN secrets

\* C18: on the HTTPS pass with a TLSProfile that refers to a secret, a secret
\* in the cache is not fetched; one not in the cache is fetched once and,
\* when the cluster has it, cached under its name; a failed fetch leaves the
\* cache as it was; a failed fetch or profile creation returns false and
\* attaches nothing; and a success returns true with exactly one profile of
\* the secret's name in the virtual's partition, a client-side one.
C18_SecretProfile ==
    [][SecretPass
       => LET P == rsMap[PassName].Virtual.Profiles
              Q == rsMap'[PassName].Virtual.Profiles
              partition == rsMap[PassName].Virtual.Partition
              used == IF InCache THEN SSLContext[SecretName]
                      ELSE secrets[<<PassVS.Namespace, SecretName>>]
              ok == (InCache \/ InCluster) /\ used.Data = "cert"
              named == {i \in 1..Len(Q) :
                           Q[i].Name = SecretName /\ Q[i].Partition = partition}
          IN  /\ InCache => (lastOp'.gets = 0 /\ SSLContext' = SSLContext)
              /\ ~InCache => lastOp'.gets = 1
              /\ (~InCache /\ InCluster)
                    => SSLContext' = MapPut(SSLContext, SecretName,
                                            secrets[<<PassVS.Namespace, SecretName>>])
              /\ (~InCache /\ ~InCluster) => SSLContext' = SSLContext
              /\ ~ok => (lastOp'.ret = FALSE /\ Q = P)
              /\ ok => /\ lastOp'.ret = TRUE
                       /\ Cardinality(named) = 1
                       /\ \A i \in named :
                              Q[i] = [Partition |-> partition, Name |-> SecretName,
                                      Context |-> "clientside",
                                      Namespace |-> PassVS.Namespace]
                       /\ Len(Q) <= Len(P) + 1]_vars

\* a pass that found the cache empty, fetched the secret, cached it and
\* attached its profile to the fresh virtual
C18_Witness ==
    /\ lastOp.op = "handleVirtualServerTLS"
    /\ lastOp.ret = TRUE
    /\ lastOp.gets = 1
    /\ lastOp.found.Profiles = <<>>
    /\ "clientssl" \in DOMAIN SSLContext
    /\ LET n == formatVirtualServerName(Addr1, 443)
       IN  /\ n \in DOMAIN rsMap
           /\ rsMap[n].Virtual.Profiles =
                  <<[Partition |-> "test", Name |-> "clientssl",
                     Context |-> "clientside", Namespace |-> "ns1"]>>

\* C20: TLS resolution keeps no state between passes: a pass over a freshly
\* built config of a VirtualServer whose TLSProfile refers to a secret
\* succeeds and attaches the profile exactly when the cluster now holds the
\* secret with its certificate, whatever earlier passes did: it fails once
\* the secret is gone and succeeds once the secret is put right.
C20_NoStateBetweenPasses ==
    [][(SecretPass /\ rsMap[PassName].Virtual.Profiles = <<>>)
       => LET now == InCluster
                     /\ secrets[<<PassVS.Namespace, SecretName>>].Data = "cert"
          IN  /\ lastOp'.ret = now
              /\ (rsMap'[PassName].Virtual.Profiles # <<>>) = now]_vars

\* the shared iRule and data group of the redirect, and the reference to the
\* iRule in a virtual
RedirectIRule == NameRef("http_redirect_irule_443", "Common")
RedirectDg == NameRef("https_redirect_dg", "Common")
RedirectRef == "/Common/http_redirect_irule_443"
Occurrences(list, x) == Cardinality({i \in 1..Len(list) : list[i] = x})

\* C19: the redirect pass over a plaintext virtual is idempotent: after each
\* pass with traffic policy "redirect", first or repeated, over this virtual
\* or another, the iRule map holds the one iRule http_redirect_irule_443 with
\* the code first stored, the data-group map holds the one entry
\* https_redirect_dg with the content it had, and the virtual's IRules hold
\* the reference to the iRule once.
C19_RedirectIdempotent ==
    [][(/\ IsPass
        /\ PassVS.TLSProfileName # ""
        /\ PassPort # 443
        /\ PassVS.HTTPTraffic = "redirect")
       => /\ DOMAIN irulesMap' = {RedirectIRule}
          /\ irulesMap'[RedirectIRule].Name = "http_redirect_irule_443"
          /\ (RedirectIRule \in DOMAIN irulesMap
                 => irulesMap'[RedirectIRule] = irulesMap[RedirectIRule])
          /\ DOMAIN intDgMap' = {RedirectDg}
          /\ (RedirectDg \in DOMAIN intDgMap
                 => intDgMap'[RedirectDg] = intDgMap[RedirectDg])
          /\ Occurrences(rsMap'[PassName].Virtual.IRules, RedirectRef) = 1
          /\ \A n \in DOMAIN rsMap :
                 Occurrences(rsMap'[n].Virtual.IRules, RedirectRef) <= 1]_vars

\* a redirect pass over a virtual that had the reference already, with the
\* data group filled for two namespaces and the reference in a second virtual
C19_Witness ==
    /\ lastOp.op = "handleVirtualServerTLS"
    /\ lastOp.arg.vs.HTTPTraffic = "redirect"
    /\ lastOp.found.IRules = <<RedirectRef>>
    /\ rsMap[lastOp.arg.name].Virtual.IRules = <<RedirectRef>>
    /\ RedirectDg \in DOMAIN intDgMap
    /\ DOMAIN intDgMap[RedirectDg] = {"ns1", "ns2"}
    /\ \E n \in DOMAIN rsMap \ {lastOp.arg.name} :
           rsMap[n].Virtual.IRules = <<RedirectRef>>
    /\ svcFwdRulesMap # {}

(***************************************************************************)
(* Properties of concurrent passes                                         *)
(***************************************************************************)
\* the workers that are between Lock and Unlock
InStore == {w \in Workers : pc[w] # "idle"}

Attached(w) ==
    \E i \in 1..Len(rsMap[RaceName(w)].Virtual.Profiles) :
        LET p == rsMap[RaceName(w)].Virtual.Profiles[i]
        IN  p.Name = "clientssl" /\ p.Context = "clientside"

\* C22: two passes that resolve the same uncached secret side by side both
\* run to their end: no pass is cut short, each asks the cluster at most
\* once, and once both have fetched and ended the cache holds the secret and
\* both virtuals carry the client-side profile reference.
C22_BenignRace ==
    /\ ~panicked
    /\ \A w \in Workers : local[w].gets <= 1
    /\ (\A w \in Workers : pc[w] = "done" /\ local[w].gets = 1 /\ local[w].ret)
         => /\ "clientssl" \in DOMAIN SSLContext
            /\ SSLContext["clientssl"] = GoodSecret
            /\ \A w \in Workers : Attached(w)

(***************************************************************************)
(* Properties of data-group flattening                                     *)
(***************************************************************************)
IsFlatten == lastOp.op = "FlattenNamespaces"
FlatArg == lastOp.arg.dgnm
FlatRet == lastOp.ret
\* the data the namespaces supply for a record name
Supplied(dgnm, name) ==
    UNION {{dgnm[ns].Records[i].Data :
               i \in {j \in 1..Len(dgnm[ns].Records) : dgnm[ns].Records[j].Name = name}} :
           ns \in DOMAIN dgnm}
\* the namespaces that have a record of that name
Suppliers(dgnm, name) ==
    {ns \in DOMAIN dgnm : \E i \in 1..Len(dgnm[ns].Records) : dgnm[ns].Records[i].Name = name}
\* several namespaces were flattened under a name with the concat handler
IsConcat == FlatArg[CHOOSE ns \in DOMAIN FlatArg : TRUE].Name
                \in {HttpsRedirectDgName, AbDeploymentDgName}
Several == IsFlatten /\ Cardinality(DOMAIN FlatArg) >= 2

\* C23: FlattenNamespaces returns nil for no namespace and the data group of
\* the only namespace itself for one; for two or more it returns a new data
\* group with one record per record name of any namespace, sorted by name,
\* and a record for which all its namespaces agree has their data.
C23_Flatten ==
    IsFlatten =>
        /\ Cardinality(DOMAIN FlatArg) = 0 => FlatRet.ref = "nil"
        /\ Cardinality(DOMAIN FlatArg) = 1
             => FlatRet.ref \in DOMAIN FlatArg /\ FlatRet.dg = FlatArg[FlatRet.ref]
        /\ Cardinality(DOMAIN FlatArg) >= 2
             => LET R == FlatRet.dg.Records
                IN  /\ FlatRet.ref = "new"
                    /\ {R[i].Name : i \in 1..Len(R)} = flatNames(FlatArg)
                    /\ \A i, j \in 1..Len(R) : i < j => StrLess(R[i].Name, R[j].Name)
                    /\ \A i \in 1..Len(R) :
                          \A d \in Supplied(FlatArg, R[i].Name) :
                              Supplied(FlatArg, R[i].Name) = {d} => R[i].Data = d
\* three namespaces, two record names, one of them with the same data in
\* every namespace that has it, and the name iterated last sorts first
C23_Witness ==
    /\ Several
    /\ Cardinality(DOMAIN FlatArg) = 3
    /\ Len(FlatRet.dg.Records) = 2
    /\ Cardinality(Supplied(FlatArg, "bar.com")) = 1
    /\ Cardinality(Suppliers(FlatArg, "bar.com")) = 2
    /\ Cardinality(Supplied(FlatArg, "foo.com")) = 3

\* the data of the first namespace, in the order visited, with that record
firstData(dgnm, order, name) ==
    LET k == CHOOSE x \in 1..Len(order) :
                 /\ order[x] \in Suppliers(dgnm, name)
                 /\ \A y \in 1..(x - 1) : order[y] \notin Suppliers(dgnm, name)
        R == dgnm[order[k]].Records
    IN  R[CHOOSE i \in 1..Len(R) : R[i].Name = name].Data

\* C24: under the warn handler, and under a name without a handler, a
\* flattened record holds the data of the namespace visited first among
\* those that have it, which is one of the supplied values.
C24_FirstValueStays ==
    (Several /\ ~IsConcat) =>
        \A i \in 1..Len(FlatRet.dg.Records) :
            LET r == FlatRet.dg.Records[i]
            IN  /\ r.Data = firstData(FlatArg, lastOp.arg.nsOrder, r.Name)
                /\ r.Data \in Supplied(FlatArg, r.Name)
\* three namespaces with three different values for one name, no handler
C24_Witness ==
    /\ Several /\ ~IsConcat
    /\ FlatRet.dg.Name = "other_dg"
    /\ Cardinality(Supplied(FlatArg, "foo.com")) = 3
    /\ lastOp.arg.nsOrder = <<"ns2", "ns3", "ns1">>

\* the tokens of a value
Tokens(data) == Split(data, "|")

\* C25: under the concat handler a record with different supplied values
\* holds the tokens of all of them, each once, in ascending order, with "|"
\* between them, and every order of visiting the namespaces gives the same
\* data group.
C25_ConcatUnion ==
    (Several /\ IsConcat) =>
        /\ \A i \in 1..Len(FlatRet.dg.Records) :
              LET r == FlatRet.dg.Records[i]
                  t == Tokens(r.Data)
              IN  Cardinality(Supplied(FlatArg, r.Name)) >= 2 =>
                      /\ \A a, b \in 1..Len(t) : a < b => StrLess(Join(t[a]), Join(t[b]))
                      /\ Range(t) = UNION {Range(Tokens(d)) : d \in Supplied(FlatArg, r.Name)}
        /\ \A o \in Orders(DOMAIN FlatArg), ro \in Orders(flatNames(FlatArg)) :
              FlattenNamespaces(FlatArg, o, ro) = FlatRet
\* the redirect group of three namespaces: "b|a", "a" and "c" for one name
C25_Witness ==
    /\ Several /\ IsConcat
    /\ FlatRet.dg.Name = HttpsRedirectDgName
    /\ Supplied(FlatArg, "foo.com") = FlattenData
    /\ \E i \in 1..Len(FlatRet.dg.Records) :
          FlatRet.dg.Records[i].Data = <<"a", "|", "b", "|", "c">>

(***************************************************************************)
(* Properties of addresses and names                                       *)
(***************************************************************************)
\* C26: after SetVirtualAddress(addr, port) the address and the destination
\* of the virtual are given by addr and port alone: nil and empty for the
\* empty address with port 0; else the pair is stored and the destination is
\* /<partition>/<ip><%rd>:<port> for an IPv4 address, with "." before the
\* port for an IPv6 address, and empty for what is no IP address.
C26_SetVirtualAddress ==
    lastOp.op = "SetVirtualAddress" =>
        LET v == rsMap[lastOp.arg.name].Virtual
            port == lastOp.arg.port
            c == CHOOSE x \in AddressCases : x.addr = lastOp.arg.bindAddr
        IN  IF c.addr = <<>> /\ port = 0
            THEN v.VirtualAddress = NilVirtualAddress /\ v.Destination = ""
            ELSE /\ v.VirtualAddress = [BindAddr |-> Join(c.addr), Port |-> port]
                 /\ c.family = "IPv4" =>
                        v.Destination = "/" \o v.Partition \o "/" \o c.ip \o c.rd
                                            \o ":" \o ToString(port)
                 /\ c.family = "IPv6" =>
                        v.Destination = "/" \o v.Partition \o "/" \o c.ip \o c.rd
                                            \o "." \o ToString(port)
                 /\ c.family = "none" => v.Destination = ""
\* a virtual built with destination /test/10.1.1.1:80 is given an address
\* that is no IP address
C26_Witness ==
    /\ lastOp.op = "SetVirtualAddress"
    /\ lastOp.arg.name = formatVirtualServerName(Addr1, 80)
    /\ lastOp.arg.bindAddr = Addr1Dashed
    /\ rsMap[lastOp.arg.name].Virtual.VirtualAddress = [BindAddr |-> "10-1-1-1", Port |-> 443]

\* C27: split_ip_with_route_domain(address) is (X, D) when address is X, "%"
\* and D with no "%" in X and D one or more digits, and (address, "")
\* otherwise; ip, and "%" and rd when rd is not empty, make up the address.
C27_SplitRouteDomain ==
    lastOp.op = "split_ip_with_route_domain" =>
        LET address == lastOp.arg
            n == Len(address)
            forms == {k \in 1..n : /\ address[k] = "%"
                                   /\ \A i \in 1..(k - 1) : address[i] # "%"
                                   /\ k < n
                                   /\ \A i \in (k + 1)..n : address[i] \in DigitRuns}
        IN  /\ \A k \in forms : lastOp.ret = [ip |-> SubSeq(address, 1, k - 1),
                                               rd |-> SubSeq(address, k + 1, n)]
            /\ forms = {} => lastOp.ret = [ip |-> address, rd |-> <<>>]
            /\ Join(address) = IF lastOp.ret.rd # <<>>
                               THEN Join(lastOp.ret.ip) \o "%" \o Join(lastOp.ret.rd)
                               ELSE Join(lastOp.ret.ip)
\* "10.1.1.1%20" gives ip "10.1.1.1" and rd "20"
C27_Witness ==
    /\ lastOp.op = "split_ip_with_route_domain"
    /\ Join(lastOp.arg) = "10.1.1.1%20"
    /\ Join(lastOp.ret.ip) = "10.1.1.1"
    /\ Join(lastOp.ret.rd) = "20"

C29_PoolNamesDistinct ==
    lastOp.op = "formatVirtualServerPoolName" =>
        \A l \in LabelInputs :
            Join(l) # Join(lastOp.arg.nodeMemberLabel) =>
                formatVirtualServerPoolName(lastOp.arg.namespace, lastOp.arg.svc, l)
                    # lastOp.ret

(***************************************************************************)
(* Properties of AddRuleToPolicy alone                                     *)
(***************************************************************************)
RuleKey(rule) == <<rule.Name, rule.FullURI>>
\* the forwarding rules of the config before and after a step
RulesBefore == ForwardingRules(rsMap[RsName])
RulesAfter == ForwardingRules(rsMap'[RsName])

\* C30: under AddRuleToPolicy alone no two rules of the forwarding policy
\* share name and URI; a rule whose name and URI a rule of the policy has
\* takes that rule's place and Ordinal, every other rule staying as it is,
\* and a rule with a new name or URI goes to the end, every rule staying as
\* it is.
C30_UniqueByNameAndURI ==
    /\ [](\A i, j \in 1..Len(RulesBefore) :
            i # j => RuleKey(heap[RulesBefore[i]]) # RuleKey(heap[RulesBefore[j]]))
    /\ [][\E a \in RuleIds :
            /\ Range(RulesAfter) \ Range(RulesBefore) = {a}
            /\ LET hits == {i \in 1..Len(RulesBefore) :
                               RuleKey(heap[RulesBefore[i]]) = RuleKey(heap'[a])}
               IN  IF hits # {}
                   THEN /\ Len(RulesAfter) = Len(RulesBefore)
                        /\ \A m \in hits :
                              /\ RulesAfter[m] = a
                              /\ heap'[a].Ordinal = heap[RulesBefore[m]].Ordinal
                        /\ \A i \in 1..Len(RulesBefore) \ hits :
                              /\ RulesAfter[i] = RulesBefore[i]
                              /\ heap'[RulesAfter[i]] = heap[RulesBefore[i]]
                   ELSE /\ RulesAfter = Append(RulesBefore, a)
                        /\ \A i \in 1..Len(RulesBefore) :
                              heap'[RulesAfter[i]] = heap[RulesBefore[i]]]_vars
\* the second vs-rule-a for foo.com/a stands where the first stood, between
\* two other rules, with the Ordinal of the first, and vs-rule-a for
\* foo.com/b stands beside it
C30_Witness ==
    /\ lastOp.op = "AddRuleToPolicy"
    /\ RulesBefore = <<1, 4, 10>>
    /\ heap[4].Ordinal = NewRule(3).Ordinal
    /\ NewRule(4).Ordinal # NewRule(3).Ordinal

(***************************************************************************)
(* Properties of the return value of a pass                                *)
(***************************************************************************)
\* C31: handleVirtualServerTLS returns true exactly when the pass added a
\* profile to the Profiles of the virtual or changed one, and false when it
\* left the list as it was.
C31_ReturnsWhetherUpdated ==
    [][(IsPass /\ ~panicked')
       => (lastOp'.ret = TRUE
           <=> rsMap'[PassName].Virtual.Profiles # rsMap[PassName].Virtual.Profiles)]_vars

(***************************************************************************)
(* Properties of one merge pass and of deletion after it                   *)
(***************************************************************************)
\* the rules the step took out of the forwarding policy, and the rules of
\* the policy that hold an action of rule m they did not hold before
TakenOut == Range(RulesBefore) \ Range(RulesAfter)
GrownBy(m) ==
    {r \in Range(RulesAfter) \cap Range(RulesBefore) :
        \E a \in Range(heap[m].Actions) :
            a \in Range(heap'[r].Actions) /\ a \notin Range(heap[r].Actions)}
\* the merger records of the config that list the name
MergersOf(mrm, name) ==
    IF RsName \notin DOMAIN mrm THEN {}
    ELSE {x \in DOMAIN mrm[RsName] :
             /\ mrm[RsName][x].MergedActions # <<>>
             /\ name \in Range(mrm[RsName][x].OtherRuleNames)}

\* C32: a rule that a MergeRules pass takes out of the policy is folded into
\* one merger only: at most one rule of the policy gains actions of it, at
\* most one merger record lists it, and its own record names that merger.
C32_MergedOnce ==
    [][(lastOp'.op = "MergeRules" /\ ~panicked' /\ mergedRulesMap = <<>>)
       => \A m \in TakenOut :
            /\ Cardinality(GrownBy(m)) <= 1
            /\ Cardinality(MergersOf(mergedRulesMap', heap[m].Name)) <= 1
            /\ \A r \in GrownBy(m) :
                  /\ MergersOf(mergedRulesMap', heap[m].Name) = {heap[r].Name}
                  /\ mergedRulesMap'[RsName][heap[m].Name].OtherRuleNames
                        = <<heap[r].Name>>]_vars

\* the name is that of a folded rule: it has a record with no merged actions
\* of its own and no rule of the forwarding policy bears it
IsFolded(mrm, h, rules, name) ==
    /\ RsName \in DOMAIN mrm
    /\ name \in DOMAIN mrm[RsName]
    /\ mrm[RsName][name].MergedActions = <<>>
    /\ \A i \in 1..Len(rules) : h[rules[i]].Name # name
\* some record of the config mentions the name
Mentioned(mrm, name) ==
    /\ RsName \in DOMAIN mrm
    /\ \/ name \in DOMAIN mrm[RsName]
       \/ \E x \in DOMAIN mrm[RsName] :
             \/ name \in Range(mrm[RsName][x].OtherRuleNames)
             \/ name \in DOMAIN mrm[RsName][x].MergedActions
\* the actions the records say the name contributed that a rule of the list
\* still holds
Contributed(mrm, h, rules, name) ==
    {a \in 1..NumActions :
        \E x \in DOMAIN mrm[RsName], i \in 1..Len(rules) :
            /\ name \in DOMAIN mrm[RsName][x].MergedActions
            /\ a \in Range(mrm[RsName][x].MergedActions[name])
            /\ h[rules[i]].Name = x
            /\ a \in Range(h[rules[i]].Actions)}

\* C33: DeleteRuleFromPolicy for a rule that MergeRules folded into a merger
\* unmerges it: afterwards no action it contributed remains on a rule of the
\* policy and no merge record mentions it.
C33_DeleteUnmerges ==
    [][(/\ lastOp'.op = "DeleteRuleFromPolicy"
        /\ ~panicked'
        /\ IsFolded(mergedRulesMap, heap, RulesBefore, lastOp'.arg))
       => (/\ ~Mentioned(mergedRulesMap', lastOp'.arg)
           /\ Contributed(mergedRulesMap, heap', RulesAfter, lastOp'.arg) = {})]_vars

(***************************************************************************)
(* Merge bookkeeping                                                       *)
(***************************************************************************)
\* a record of a rule folded into another, and of a rule others were folded into
IsMergeeRecord(e) == e.MergedActions = <<>>
IsMergerRecord(e) == e.MergedActions # <<>>

\* every rule the last merge pass took out of the policy has a mergee record
\* with its saved original
RemovedHaveRecords ==
    (lastOp.op = "MergeRules" /\ preMerge # <<>>)
        => \A i \in 1..Len(preMerge) :
               preMerge[i].Name \notin NamesOf(LiveRules, heap)
                   => LET e == EntryOf(mergedRulesMap, RsName, preMerge[i].Name)
                      IN  /\ preMerge[i].Name \in DOMAIN RecordsOf(mergedRulesMap)
                          /\ IsMergeeRecord(e)
                          /\ e.OriginalRule # NilRule
                          /\ heap[e.OriginalRule] = preMerge[i]
\* every mergee record names one merger, which has a record listing the mergee
MergeesNameMerger ==
    \A m \in DOMAIN RecordsOf(mergedRulesMap) :
        LET e == RecordsOf(mergedRulesMap)[m]
        IN  IsMergeeRecord(e)
                => /\ Len(e.OtherRuleNames) = 1
                   /\ e.OtherRuleNames[1] \in DOMAIN RecordsOf(mergedRulesMap)
                   /\ LET r == RecordsOf(mergedRulesMap)[e.OtherRuleNames[1]]
                      IN  IsMergerRecord(r) /\ m \in Range(r.OtherRuleNames)
\* the rule of every merger record is in the forwarding policy and holds
\* every action the record lists
MergersInPolicy ==
    \A x \in DOMAIN RecordsOf(mergedRulesMap) :
        LET e == RecordsOf(mergedRulesMap)[x]
        IN  IsMergerRecord(e)
                => \E i \in 1..Len(LiveRules) :
                       /\ LiveRules[i] # NilRule
                       /\ heap[LiveRules[i]].Name = x
                       /\ \A m \in DOMAIN e.MergedActions :
                              Range(e.MergedActions[m]) \subseteq Range(heap[LiveRules[i]].Actions)
\* no record remains for the rule the last call unmerged
UnmergedHasNoRecord ==
    (lastOp.op = "UnmergeRule" /\ lastOp.ret = TRUE)
        => lastOp.arg \notin DOMAIN RecordsOf(mergedRulesMap)

\* the engine with rules added only while the config has no merge record:
\* once a pass has merged, only MergeRules, UnmergeRule and
\* DeleteRuleFromPolicy act until the records are gone
BookkeepingRules == {1, 2, 3}
NextBookkeeping ==
    \/ (~HasRecords(mergedRulesMap, RsName) /\ CallAddRuleToPolicy(BookkeepingRules))
    \/ CallDeleteRuleFromPolicy(BookkeepingRules)
    \/ CallMergeRules
    \/ CallUnmergeRule(BookkeepingRules)
SpecBookkeeping == Init /\ [][NextBookkeeping]_vars

\* C34: in every state reached by MergeRules, UnmergeRule and
\* DeleteRuleFromPolicy the merge records agree with the policy: removed rules
\* have a mergee record with their original, a mergee record names one merger
\* whose record lists it, a merger record's rule is in the policy with the
\* actions the record lists, and an unmerged rule has no record.
C34_Bookkeeping ==
    ~panicked => /\ RemovedHaveRecords
                 /\ MergeesNameMerger
                 /\ MergersInPolicy
                 /\ UnmergedHasNoRecord

(***************************************************************************)
(* Deleting a rule that has no merge record                                *)
(***************************************************************************)
\* rules that share the name only, the URI only, or neither, added, merged
\* and deleted
DeleteRules == {1, 3, 5, 10}
NextDelete ==
    \/ CallAddRuleToPolicy(DeleteRules)
    \/ CallDeleteRuleFromPolicy(DeleteRules)
    \/ CallMergeRules
SpecDelete == Init /\ [][NextDelete]_vars

\* the step is a DeleteRuleFromPolicy for a rule without a merge record
IsPlainDelete ==
    /\ lastOp'.op = "DeleteRuleFromPolicy"
    /\ lastOp'.arg \notin DOMAIN RecordsOf(mergedRulesMap)
DeletedKey == <<lastOp'.arg, lastOp'.uri>>
\* the positions of the rules of the policy with the name and URI handed in
DeleteHits == {i \in 1..Len(RulesBefore) : RuleKey(heap[RulesBefore[i]]) = DeletedKey}
NamedPolicies(rc) == {i \in 1..Len(rc.Policies) : rc.Policies[i].Name = PolicyName}
NamedRefs(rc) == {i \in 1..Len(rc.Virtual.Policies) : rc.Virtual.Policies[i].Name = PolicyName}

\* C35: DeleteRuleFromPolicy for a rule without a merge record removes exactly
\* the rule of the policy with that name and URI, the other rules keeping
\* their order and getting the ordinals 0..N-1; removes the policy and its
\* reference on the virtual when that rule is the only one; and changes
\* nothing when the policy or the rule is absent.
C35_DeletePlainRule ==
    [][IsPlainDelete
       => /\ ~panicked'
          /\ mergedRulesMap' = mergedRulesMap
          /\ IF DeleteHits = {}
             THEN rsMap' = rsMap /\ heap' = heap
             ELSE IF Len(RulesBefore) = 1
             THEN /\ NamedPolicies(rsMap'[RsName]) = {}
                  /\ NamedRefs(rsMap'[RsName]) = {}
             ELSE /\ Cardinality(DeleteHits) = 1
                  /\ NamedRefs(rsMap'[RsName]) # {}
                  /\ RulesAfter = SelectSeq(RulesBefore,
                                            LAMBDA r : RuleKey(heap[r]) # DeletedKey)
                  /\ \A k \in 1..Len(RulesAfter) :
                         heap'[RulesAfter[k]] = [heap[RulesAfter[k]] EXCEPT !.Ordinal = k - 1]]_vars

\* vs-rule-a for foo.com/a was deleted from a policy that keeps vs-rule-b and
\* the vs-rule-a of foo.com/b, renumbered 0 and 1
C35_Witness ==
    /\ ~panicked
    /\ lastOp.op = "DeleteRuleFromPolicy"
    /\ lastOp.arg = "vs-rule-a"
    /\ lastOp.uri = "foo.com/a"
    /\ mergedRulesMap = <<>>
    /\ LiveRules = <<5, 10>>
    /\ heap[5].Ordinal = 0
    /\ heap[10].Ordinal = 1

(***************************************************************************)
(* What deleteVirtualServer leaves alone                                   *)
(***************************************************************************)
\* the name of the config of the first VirtualServer
FirstName == formatVirtualServerName(FirstVirtualServer.VirtualServerAddress, 80)
SecondName == formatVirtualServerName(SecondVirtualServer.VirtualServerAddress, 80)

\* C36: deleteVirtualServer(name) removes the live entry under that name and
\* nothing else: the other live entries, the snapshot and the dependency
\* records stay as they are; and an UpdateDependencies for an owner with the
\* dependencies recorded for it returns nothing added and nothing removed and
\* leaves the records as they are.
C36_DeleteFrame ==
    [][/\ (lastOp'.op = "deleteVirtualServer")
            => /\ rsMap' = [n \in DOMAIN rsMap \ {lastOp'.arg} |-> rsMap[n]]
               /\ oldRsMap' = oldRsMap
               /\ objDeps' = objDeps
       /\ (/\ lastOp'.op = "UpdateDependencies"
           /\ depKey' \in DOMAIN objDeps
           /\ depNew' = objDeps[depKey'])
            => /\ added' = <<>>
               /\ removed' = <<>>
               /\ objDeps' = objDeps]_vars
\* the config of the first VirtualServer was deleted after a snapshot that
\* still holds it, the other config is live, and the last call, an
\* UpdateDependencies for its owner with the dependency recorded for it,
\* returned two empty lists
C36_Witness ==
    /\ lastOp.op = "UpdateDependencies"
    /\ depKey = LockedOwner
    /\ DOMAIN depNew = {R1}
    /\ objDeps[LockedOwner] = depNew
    /\ added = <<>>
    /\ removed = <<>>
    /\ FirstName \notin DOMAIN rsMap
    /\ FirstName \in DOMAIN oldRsMap
    /\ SecondName \in DOMAIN rsMap

====
